---- MODULE Spec2Model ----
(***************************************************************************)
(* A model of the folder mover (src/src/folder_mover): the destination     *)
(* resolver, the move primitive, the FolderMover engine and its batch      *)
(* loop.  Names are sequences of one-character strings, so that the        *)
(* suffix formatting f"{name}_{counter}", lower-casing, glob and substring *)
(* tests are computed on the characters, as the code computes them.        *)
(***************************************************************************)
EXTENDS Integers, Sequences, FiniteSets, TLC

VARIABLES
    cfg,       \* the FolderMover constructor arguments (mover.py 361-368)
    fs,        \* the filesystem: source folders and the destination tree
    fs0,       \* the filesystem the engine was constructed over
    eng,       \* FolderMover session state: _claimed_names, _quarantine_claimed, _stats
    batch,     \* the running move_all call: matches, position, results, ops_count
    outcomes,  \* every MoveResult returned since construction or the last reset
    calls,     \* FolderMover.move_folder calls made since construction
    twin,      \* a second engine on its own filesystem (dry-run/live comparison)
    rs,        \* the resolver harness: successive resolve_destination calls
    mt,        \* the matcher harness: the inputs and results of match_caseids
    sc,        \* a scan_folders call: the tree, the pending directories, the result
    cli,       \* a run of the CLI main: the paths given, the step reached, the exit code
    rp,        \* the report: the rows write_move_result wrote, the resume set loaded
    gui        \* FolderMoverGUI: worker threads, buttons, timer callbacks

vars == <<cfg, fs, fs0, eng, batch, outcomes, calls, twin, rs, mt, sc, cli, rp, gui>>

(***************************************************************************)
(* Bounds of the model.                                                    *)
(***************************************************************************)
MaxMatches == 3      \* longest match list handed to move_all
MaxResolves == 3     \* successive resolve_destination calls in the harness

(***************************************************************************)
(* Strings.                                                                *)
(***************************************************************************)
Digit == <<"0", "1", "2", "3", "4", "5", "6", "7", "8", "9">>

\* str(n) of a natural number, as the f-string formats the counter
RECURSIVE Str(_)
Str(n) == IF n < 10 THEN <<Digit[n + 1]>>
          ELSE Str(n \div 10) \o <<Digit[(n % 10) + 1]>>

DigitVal(c) == CHOOSE d \in 0..9 : Digit[d + 1] = c

IsDigit(c) == \E d \in 0..9 : Digit[d + 1] = c

\* the number a canonical decimal string denotes
RECURSIVE Val(_)
Val(s) == IF Len(s) = 0 THEN 0
          ELSE 10 * Val(SubSeq(s, 1, Len(s) - 1)) + DigitVal(s[Len(s)])

\* str.lower() on the alphabet the model uses.  "J" stands for the capital
\* I with dot above (U+0130), the one character whose lower-case form is two
\* characters: "i" followed by the combining dot above (U+0307), written "'".
LowerChar(c) ==
    CASE c = "A" -> "a"
      [] c = "B" -> "b"
      [] c = "T" -> "t"
      [] c = "X" -> "x"
      [] c = "Y" -> "y"
      [] OTHER -> c

LowerOf(c) == IF c = "J" THEN <<"i", "'">> ELSE <<LowerChar(c)>>

RECURSIVE Lower(_)
Lower(s) == IF Len(s) = 0 THEN <<>> ELSE LowerOf(Head(s)) \o Lower(Tail(s))

\* p in s: p is a contiguous substring of s
IsSubstring(p, s) ==
    \E i \in 0..(Len(s) - Len(p)) : SubSeq(s, i + 1, i + Len(p)) = p

\* fnmatch.fnmatch(name, pat) for patterns made of literals, * and ?
RECURSIVE Fnmatch(_, _)
Fnmatch(name, pat) ==
    IF Len(pat) = 0 THEN Len(name) = 0
    ELSE IF Head(pat) = "*"
         THEN Fnmatch(name, Tail(pat))
              \/ (Len(name) > 0 /\ Fnmatch(Tail(name), pat))
    ELSE IF Head(pat) = "?"
         THEN Len(name) > 0 /\ Fnmatch(Tail(name), Tail(pat))
    ELSE Len(name) > 0 /\ Head(name) = Head(pat)
         /\ Fnmatch(Tail(name), Tail(pat))

(***************************************************************************)
(* The filesystem.  A destination path is the sequence of its components   *)
(* below dest_root.  fs.dest holds the paths that exist; in addition       *)
(* fs.fill = n stands for the n entries FillBase_1 .. FillBase_n directly  *)
(* in dest_root (a destination pre-populated with stale duplicates).       *)
(***************************************************************************)
NameA == <<"A">>
NameT == <<"T">>
FillBase == NameA

DUPLICATES_FOLDER == <<"_", "D", "U", "P">>

\* f"{folder_name}_{counter}"
Suffixed(folder_name, counter) == folder_name \o <<"_">> \o Str(counter)

\* name is FillBase_k for some 1 <= k <= n
InFill(name, n) ==
    LET pre == Len(FillBase) + 1
        ds == SubSeq(name, pre + 1, Len(name))
    IN  /\ n > 0
        /\ Len(name) > pre
        /\ SubSeq(name, 1, pre) = FillBase \o <<"_">>
        /\ \A i \in 1..Len(ds) : IsDigit(ds[i])
        /\ ds[1] # "0"
        /\ Val(ds) <= n

\* os.path.exists of a path below dest_root
PathExists(f, path) ==
    \/ path \in f.dest
    \/ (Len(path) = 1 /\ InFill(path[1], f.fill))

(***************************************************************************)
(* resolve_destination.                                                    *)
(***************************************************************************)
MAX_ATTEMPTS == 10000

\* faulty variant: the claimed set is not consulted
CandidateFreeDiskOnly(f, dest_root_path, name, existing_names) ==
    ~PathExists(f, Append(dest_root_path, name))

\* faulty variant: the disk is not consulted
CandidateFreeClaimedOnly(f, dest_root_path, name, existing_names) ==
    name \notin existing_names

\* the candidate of one probe is free on both axes (mover.py 187, 195)
CandidateFree(f, dest_root_path, name, existing_names) ==
    /\ ~PathExists(f, Append(dest_root_path, name))
    /\ name \notin existing_names

\* faulty variant: the loop gives up one probe early
ProbeRangeShort == 1..(MAX_ATTEMPTS - 1)

\* the counters the while loop of mover.py 191-204 probes: it starts with 1
\* and raises once counter + 1 > 10000
ProbeRange == 1..MAX_ATTEMPTS

\* The loop: the counters are probed in increasing order and the first free
\* candidate is returned; when none of them is free the loop ends with the
\* RuntimeError (raised).
ResolveSuffix(f, dest_root_path, folder_name, existing_names) ==
    LET Free(k) == CandidateFree(f, dest_root_path,
                                 Suffixed(folder_name, k), existing_names)
    IN  IF \E k \in ProbeRange : Free(k)
        THEN LET c == CHOOSE k \in ProbeRange :
                          Free(k) /\ \A j \in 1..(k - 1) : ~Free(j)
             IN  [raised |-> FALSE, counter |-> c,
                  path |-> Append(dest_root_path, Suffixed(folder_name, c))]
        ELSE [raised |-> TRUE, counter |-> MAX_ATTEMPTS + 1, path |-> <<>>]

resolve_destination(f, dest_root_path, folder_name, existing_names) ==
    IF CandidateFree(f, dest_root_path, folder_name, existing_names)
    THEN [raised |-> FALSE, counter |-> 0,
          path |-> Append(dest_root_path, folder_name)]
    ELSE ResolveSuffix(f, dest_root_path, folder_name, existing_names)

\* Path(dest_path).name
Basename(path) == path[Len(path)]

(***************************************************************************)
(* Types of the engine (types.py 37-69).  A MoveResult's message is left   *)
(* out: no decision of the engine reads it.                                *)
(***************************************************************************)
MoveStatus ==
    {"SUCCESS", "SUCCESS_RENAMED", "SKIPPED_MISSING", "SKIPPED_EXISTS",
     "SKIPPED_EXCLUDED", "SKIPPED_RESUME", "SKIPPED_DUPLICATE", "ERROR",
     "DRY_RUN", "DRY_RUN_RENAMED", "QUARANTINED", "QUARANTINED_RENAMED",
     "DRY_RUN_QUARANTINE", "DRY_RUN_QUARANTINE_RENAMED"}

\* dest_path=None
None == <<>>

MoveResult(case_id, source_path, dest_path, status) ==
    [case_id |-> case_id, source_path |-> source_path,
     dest_path |-> dest_path, status |-> status]

(***************************************************************************)
(* Source folders.  A source path is a location and a spelling: raw is     *)
(* TRUE for a spelling that normalize_path rewrites (a trailing separator, *)
(* say).  The scanner reports normalized paths.                            *)
(***************************************************************************)
Sources == {"s1", "s2", "s3"}

SourcePath(id) == [id |-> id, raw |-> FALSE]
RawPath(id) == [id |-> id, raw |-> TRUE]

\* folder.name of the folder at each location: s1 and s2 are two folders of
\* the same name in different parents
FolderName(id) == IF id \in {"s3", "sn"} THEN NameT ELSE NameA

\* Where a source location lies.  s1, s2 and s3 lie outside dest_root and
\* fs.src holds what is there.  sd is the path dest_root/A: a folder a scan
\* reports when the destination lies inside the scanned tree; what is there
\* is what the destination tree holds at that path.
SourceLoc(id) == IF id = "sd" THEN <<NameA>> ELSE <<>>

InDestRoot(id) == SourceLoc(id) # <<>>

\* sn is the folder T inside the folder at s1 (a nested match): it is there
\* while s1 is, and leaves its path when s1 is moved.  The other locations
\* lie in no matched folder.
InsideOf(id) == IF id = "sn" THEN {"s1"} ELSE {}

ParentsThere(f, id) == \A q \in InsideOf(id) : f.src[q] = "dir"

\* utils.normalize_path, whose source is not part of the repository copy
normalize_path(p) == [p EXCEPT !.raw = FALSE]

\* os.path.exists / Path.exists of a source path
SourceExists(f, p) ==
    IF InDestRoot(p.id) THEN PathExists(f, SourceLoc(p.id))
    ELSE f.src[p.id] # "absent" /\ ParentsThere(f, p.id)

\* os.path.isdir of a source path
SourceIsDir(f, p) ==
    IF InDestRoot(p.id) THEN PathExists(f, SourceLoc(p.id))
    ELSE f.src[p.id] = "dir" /\ ParentsThere(f, p.id)

(***************************************************************************)
(* matches_exclusion_pattern (mover.py 120-151): the first pattern that    *)
(* matches as a glob or as a substring, both lower-cased; NoPattern stands *)
(* for the None it returns when no pattern matches.                        *)
(***************************************************************************)
NoPattern == <<"None">>

PatternMatches(folder_name, pattern) ==
    \/ Fnmatch(Lower(folder_name), Lower(pattern))
    \/ IsSubstring(Lower(pattern), Lower(folder_name))

matches_exclusion_pattern(folder_name, patterns) ==
    IF \E i \in 1..Len(patterns) : PatternMatches(folder_name, patterns[i])
    THEN patterns[CHOOSE i \in 1..Len(patterns) :
                     /\ PatternMatches(folder_name, patterns[i])
                     /\ \A j \in 1..(i - 1) : ~PatternMatches(folder_name, patterns[j])]
    ELSE NoPattern

\* Python truthiness of the value returned: None and "" are falsy
Truthy(matched_pattern) == matched_pattern # NoPattern /\ Len(matched_pattern) > 0

(***************************************************************************)
(* The move primitive, move_folder(src_path, dest_path, dry_run)           *)
(* (mover.py 207-321).  io is what the environment does to this call:      *)
(* "ok", "mkdir_fails" (os.makedirs raises OSError) or "move_fails"        *)
(* (safe_move returns success=False).                                      *)
(***************************************************************************)
IO == {"ok", "mkdir_fails", "move_fails"}

\* the proper prefixes of a destination path: its parent directories
Parents(path) == {SubSeq(path, 1, n) : n \in 1..(Len(path) - 1)}

\* os.makedirs(dest_parent, exist_ok=True)
Makedirs(f, dest_path) == [f EXCEPT !.dest = @ \cup Parents(dest_path)]

\* utils.safe_move, whose source is not part of the repository copy: on
\* success the folder is at dest and no longer at src; on failure nothing moved
safe_move(f, src, dest, io) ==
    IF io = "move_fails"
    THEN [success |-> FALSE, fs |-> f]
    ELSE IF InDestRoot(src.id)
    THEN [success |-> TRUE,
          fs |-> [f EXCEPT !.dest = (@ \ {SourceLoc(src.id)}) \cup {dest}]]
    ELSE [success |-> TRUE,
          fs |-> [f EXCEPT !.src[src.id] = "absent", !.dest = @ \cup {dest}]]

\* faulty variant: the dry-run test is missing
move_folder_no_dry(f, src_path, dest_path, dry_run, io) ==
    LET src == normalize_path(src_path)
        R(d, st) == MoveResult(<<>>, src, d, st)
    IN  IF ~SourceExists(f, src) THEN [fs |-> f, result |-> R(None, "SKIPPED_MISSING")]
        ELSE IF ~SourceIsDir(f, src) THEN [fs |-> f, result |-> R(None, "ERROR")]
        ELSE IF PathExists(f, dest_path)
             THEN [fs |-> f, result |-> R(dest_path, "SKIPPED_EXISTS")]
        ELSE LET mv == safe_move(Makedirs(f, dest_path), src, dest_path, io)
             IN  [fs |-> mv.fs, result |-> R(dest_path, "SUCCESS")]

\* faulty variant: the destination is not looked at before the move
move_folder_no_dest_check(f, src_path, dest_path, dry_run, io) ==
    LET src == normalize_path(src_path)
        R(d, st) == MoveResult(<<>>, src, d, st)
    IN  IF ~SourceExists(f, src) THEN [fs |-> f, result |-> R(None, "SKIPPED_MISSING")]
        ELSE IF ~SourceIsDir(f, src) THEN [fs |-> f, result |-> R(None, "ERROR")]
        ELSE IF dry_run THEN [fs |-> f, result |-> R(dest_path, "DRY_RUN")]
        ELSE IF io = "mkdir_fails" THEN [fs |-> f, result |-> R(dest_path, "ERROR")]
        ELSE LET mv == safe_move(Makedirs(f, dest_path), src, dest_path, io)
             IN  [fs |-> mv.fs,
                  result |-> R(dest_path, IF mv.success THEN "SUCCESS" ELSE "ERROR")]

\* move_folder (mover.py 207-321)
move_folder(f, src_path, dest_path, dry_run, io) ==
    LET src == normalize_path(src_path)
        R(d, st) == MoveResult(<<>>, src, d, st)
    IN  IF ~SourceExists(f, src)
        THEN [fs |-> f, result |-> R(None, "SKIPPED_MISSING")]
        ELSE IF ~SourceIsDir(f, src)
        THEN [fs |-> f, result |-> R(None, "ERROR")]
        ELSE IF PathExists(f, dest_path)
        THEN [fs |-> f, result |-> R(dest_path, "SKIPPED_EXISTS")]
        ELSE IF dry_run
        THEN [fs |-> f, result |-> R(dest_path, "DRY_RUN")]
        ELSE IF io = "mkdir_fails"
        THEN [fs |-> f, result |-> R(dest_path, "ERROR")]
        ELSE LET mv == safe_move(Makedirs(f, dest_path), src, dest_path, io)
             IN  IF mv.success
                 THEN [fs |-> mv.fs, result |-> R(dest_path, "SUCCESS")]
                 ELSE [fs |-> mv.fs, result |-> R(dest_path, "ERROR")]

(***************************************************************************)
(* FolderMover (mover.py 324-683).  c is the configuration, e the session  *)
(* state, f the filesystem.  Every method returns the new session state    *)
(* and filesystem with its result; raised is TRUE when the RuntimeError of *)
(* resolve_destination leaves the method.                                  *)
(***************************************************************************)
CidX == <<"X">>
CidY == <<"Y">>

FolderMatch(case_id, id) ==
    [case_id |-> case_id, source_path |-> SourcePath(id), folder_name |-> FolderName(id)]

NoResult == MoveResult(<<>>, SourcePath("s1"), None, "ERROR")

\* FolderMover.__init__ (mover.py 370-387)
NewEngine(c) ==
    [normalized_moved_paths |-> {normalize_path(p) : p \in c.already_moved_paths},
     claimed_names |-> {},
     quarantine_claimed |-> <<>>,
     stats |-> [st \in MoveStatus |-> 0]]

\* faulty variant: only operations are counted
CountedOpsOnly(e, f, result) ==
    [eng |-> IF result.status \in {"SKIPPED_MISSING", "SKIPPED_EXISTS", "SKIPPED_EXCLUDED",
                                   "SKIPPED_RESUME", "SKIPPED_DUPLICATE", "ERROR"}
             THEN e ELSE [e EXCEPT !.stats[result.status] = @ + 1],
     fs |-> f, result |-> result, raised |-> FALSE]

\* self._stats[result.status] += 1; return result
Counted(e, f, result) ==
    [eng |-> [e EXCEPT !.stats[result.status] = @ + 1],
     fs |-> f, result |-> result, raised |-> FALSE]

Raised(e, f) == [eng |-> e, fs |-> f, result |-> NoResult, raised |-> TRUE]

\* faulty variant: the resolved name is not reserved
ClaimNothing(names, dest_name) == names

\* self._claimed_names.add(dest_name) (mover.py 531-533), claimed.add(dest_name)
\* (mover.py 416-418)
Claim(names, dest_name) == names \cup {dest_name}

\* faulty variant: one claimed set is shared by all identifiers
resolve_quarantine_shared(c, e, f, case_id, folder_name) ==
    LET quarantine_root == <<DUPLICATES_FOLDER, case_id>>
        qc == IF case_id \in DOMAIN e.quarantine_claimed
              THEN e.quarantine_claimed
              ELSE e.quarantine_claimed @@ (case_id :> {})
        shared == UNION {qc[k] : k \in DOMAIN qc}
        r == resolve_destination(f, quarantine_root, folder_name, shared)
    IN  IF r.raised
        THEN [eng |-> [e EXCEPT !.quarantine_claimed = qc],
              raised |-> TRUE, dest_path |-> None]
        ELSE [eng |-> [e EXCEPT !.quarantine_claimed =
                                   [qc EXCEPT ![case_id] = Claim(@, Basename(r.path))]],
              raised |-> FALSE, dest_path |-> r.path]

\* FolderMover._resolve_quarantine_destination (mover.py 389-420)
resolve_quarantine_destination(c, e, f, case_id, folder_name) ==
    LET quarantine_root == <<DUPLICATES_FOLDER, case_id>>
        qc == IF case_id \in DOMAIN e.quarantine_claimed
              THEN e.quarantine_claimed
              ELSE e.quarantine_claimed @@ (case_id :> {})
        r == resolve_destination(f, quarantine_root, folder_name, qc[case_id])
    IN  IF r.raised
        THEN [eng |-> [e EXCEPT !.quarantine_claimed = qc],
              raised |-> TRUE, dest_path |-> None]
        ELSE [eng |-> [e EXCEPT !.quarantine_claimed =
                                   [qc EXCEPT ![case_id] = Claim(@, Basename(r.path))]],
              raised |-> FALSE, dest_path |-> r.path]

\* faulty variant: the quarantine branch applies on_dest_exists=skip as the
\* main branch does
move_to_quarantine_skips(c, e, f, match, io) ==
    LET original_dest == <<DUPLICATES_FOLDER, match.case_id, match.folder_name>>
        taken == \/ PathExists(f, original_dest)
                 \/ (/\ match.case_id \in DOMAIN e.quarantine_claimed
                     /\ match.folder_name \in e.quarantine_claimed[match.case_id])
        q == resolve_quarantine_destination(c, e, f, match.case_id, match.folder_name)
    IN  IF taken /\ c.on_dest_exists = "skip"
        THEN Counted(e, f, MoveResult(match.case_id, match.source_path,
                                      original_dest, "SKIPPED_EXISTS"))
        ELSE IF q.raised THEN Raised(q.eng, f)
        ELSE
        LET dest_name == Basename(q.dest_path)
            mv == move_folder(f, match.source_path, q.dest_path, c.dry_run, io)
            was_renamed == dest_name # match.folder_name
            status ==
                IF mv.result.status = "SUCCESS"
                THEN (IF was_renamed THEN "QUARANTINED_RENAMED" ELSE "QUARANTINED")
                ELSE IF mv.result.status = "DRY_RUN"
                THEN (IF was_renamed THEN "DRY_RUN_QUARANTINE_RENAMED"
                                     ELSE "DRY_RUN_QUARANTINE")
                ELSE mv.result.status
        IN  Counted(q.eng, mv.fs,
                    MoveResult(match.case_id, mv.result.source_path,
                               mv.result.dest_path, status))

\* FolderMover._move_to_quarantine (mover.py 564-618)
move_to_quarantine(c, e, f, match, io) ==
    LET q == resolve_quarantine_destination(c, e, f, match.case_id, match.folder_name)
    IN  IF q.raised THEN Raised(q.eng, f)
        ELSE
        LET dest_name == Basename(q.dest_path)
            mv == move_folder(f, match.source_path, q.dest_path, c.dry_run, io)
            was_renamed == dest_name # match.folder_name
            status ==
                IF mv.result.status = "SUCCESS"
                THEN (IF was_renamed THEN "QUARANTINED_RENAMED" ELSE "QUARANTINED")
                ELSE IF mv.result.status = "DRY_RUN"
                THEN (IF was_renamed THEN "DRY_RUN_QUARANTINE_RENAMED"
                                     ELSE "DRY_RUN_QUARANTINE")
                ELSE mv.result.status
        IN  Counted(q.eng, mv.fs,
                    MoveResult(match.case_id, mv.result.source_path,
                               mv.result.dest_path, status))

\* faulty variant: the skip test looks at the disk only, not at the names
\* claimed in the session
move_to_main_disk_only(c, e, f, match, io) ==
    LET original_dest == <<match.folder_name>>
        dest_exists == PathExists(f, original_dest)
    IN  IF dest_exists /\ c.on_dest_exists = "skip"
        THEN Counted(e, f, MoveResult(match.case_id, match.source_path,
                                      original_dest, "SKIPPED_EXISTS"))
        ELSE
        LET r == resolve_destination(f, <<>>, match.folder_name, e.claimed_names)
        IN  IF r.raised THEN Raised(e, f)
            ELSE
            LET dest_name == Basename(r.path)
                e1 == [e EXCEPT !.claimed_names = Claim(@, dest_name)]
                mv == move_folder(f, match.source_path, r.path, c.dry_run, io)
                was_renamed == dest_name # match.folder_name
                status ==
                    IF mv.result.status = "SUCCESS" /\ was_renamed
                    THEN "SUCCESS_RENAMED"
                    ELSE IF mv.result.status = "DRY_RUN" /\ was_renamed
                    THEN "DRY_RUN_RENAMED"
                    ELSE mv.result.status
            IN  Counted(e1, mv.fs,
                        MoveResult(match.case_id, mv.result.source_path,
                                   mv.result.dest_path, status))

\* faulty variant: the claimed name is given back when the move did not
\* succeed
move_to_main_releases(c, e, f, match, io) ==
    LET original_dest == <<match.folder_name>>
        dest_exists == PathExists(f, original_dest)
                       \/ match.folder_name \in e.claimed_names
    IN  IF dest_exists /\ c.on_dest_exists = "skip"
        THEN Counted(e, f, MoveResult(match.case_id, match.source_path,
                                      original_dest, "SKIPPED_EXISTS"))
        ELSE
        LET r == resolve_destination(f, <<>>, match.folder_name, e.claimed_names)
        IN  IF r.raised THEN Raised(e, f)
            ELSE
            LET dest_name == Basename(r.path)
                e1 == [e EXCEPT !.claimed_names = Claim(@, dest_name)]
                mv == move_folder(f, match.source_path, r.path, c.dry_run, io)
                was_renamed == dest_name # match.folder_name
                status ==
                    IF mv.result.status = "SUCCESS" /\ was_renamed
                    THEN "SUCCESS_RENAMED"
                    ELSE IF mv.result.status = "DRY_RUN" /\ was_renamed
                    THEN "DRY_RUN_RENAMED"
                    ELSE mv.result.status
            IN  Counted(IF mv.result.status \in {"SUCCESS", "DRY_RUN"} THEN e1 ELSE e,
                        mv.fs,
                        MoveResult(match.case_id, mv.result.source_path,
                                   mv.result.dest_path, status))

\* the main branch of FolderMover.move_folder (mover.py 505-562)
move_to_main(c, e, f, match, io) ==
    LET original_dest == <<match.folder_name>>
        dest_exists == PathExists(f, original_dest)
                       \/ match.folder_name \in e.claimed_names
    IN  IF dest_exists /\ c.on_dest_exists = "skip"
        THEN Counted(e, f, MoveResult(match.case_id, match.source_path,
                                      original_dest, "SKIPPED_EXISTS"))
        ELSE
        LET r == resolve_destination(f, <<>>, match.folder_name, e.claimed_names)
        IN  IF r.raised THEN Raised(e, f)
            ELSE
            LET dest_name == Basename(r.path)
                e1 == [e EXCEPT !.claimed_names = Claim(@, dest_name)]
                mv == move_folder(f, match.source_path, r.path, c.dry_run, io)
                was_renamed == dest_name # match.folder_name
                status ==
                    IF mv.result.status = "SUCCESS" /\ was_renamed
                    THEN "SUCCESS_RENAMED"
                    ELSE IF mv.result.status = "DRY_RUN" /\ was_renamed
                    THEN "DRY_RUN_RENAMED"
                    ELSE mv.result.status
            IN  Counted(e1, mv.fs,
                        MoveResult(match.case_id, mv.result.source_path,
                                   mv.result.dest_path, status))

\* the checks at the head of FolderMover.move_folder, one at a time
IsExcluded(c, match) ==
    /\ Len(c.exclude_patterns) > 0
    /\ Truthy(matches_exclusion_pattern(match.folder_name, c.exclude_patterns))

IsResumed(e, match) ==
    \/ normalize_path(match.source_path) \in e.normalized_moved_paths
    \/ match.source_path \in e.normalized_moved_paths

IsDuplicate(c, match) == match.case_id \in c.duplicate_case_ids

\* faulty variant: the resume check comes before the exclusion check
move_folder_resume_first(c, e, f, match, io) ==
    LET Skip(st) == Counted(e, f, MoveResult(match.case_id, match.source_path, None, st))
    IN  IF IsResumed(e, match) THEN Skip("SKIPPED_RESUME")
        ELSE IF IsExcluded(c, match) THEN Skip("SKIPPED_EXCLUDED")
        ELSE IF ~SourceExists(f, match.source_path) THEN Skip("SKIPPED_MISSING")
        ELSE IF IsDuplicate(c, match) /\ c.duplicates_action = "skip"
        THEN Skip("SKIPPED_DUPLICATE")
        ELSE IF IsDuplicate(c, match) /\ c.duplicates_action = "quarantine"
        THEN move_to_quarantine(c, e, f, match, io)
        ELSE move_to_main(c, e, f, match, io)

\* faulty variant: the policy is applied to every identifier, duplicate or not
move_folder_policy_for_all(c, e, f, match, io) ==
    LET Skip(st) == Counted(e, f, MoveResult(match.case_id, match.source_path, None, st))
    IN  IF IsExcluded(c, match) THEN Skip("SKIPPED_EXCLUDED")
        ELSE IF IsResumed(e, match) THEN Skip("SKIPPED_RESUME")
        ELSE IF ~SourceExists(f, match.source_path) THEN Skip("SKIPPED_MISSING")
        ELSE IF c.duplicates_action = "skip" THEN Skip("SKIPPED_DUPLICATE")
        ELSE IF c.duplicates_action = "quarantine"
        THEN move_to_quarantine(c, e, f, match, io)
        ELSE move_to_main(c, e, f, match, io)

\* faulty variant: the name is claimed before the source is looked at, so a
\* SKIPPED_MISSING outcome leaves a claimed name behind
move_folder_claims_on_skip(c, e, f, match, io) ==
    LET Skip(st) == Counted(e, f, MoveResult(match.case_id, match.source_path, None, st))
        e1 == [e EXCEPT !.claimed_names = Claim(@, match.folder_name)]
    IN  IF IsExcluded(c, match) THEN Skip("SKIPPED_EXCLUDED")
        ELSE IF IsResumed(e, match) THEN Skip("SKIPPED_RESUME")
        ELSE IF ~SourceExists(f, match.source_path)
        THEN Counted(e1, f, MoveResult(match.case_id, match.source_path, None,
                                       "SKIPPED_MISSING"))
        ELSE IF IsDuplicate(c, match) /\ c.duplicates_action = "skip"
        THEN Skip("SKIPPED_DUPLICATE")
        ELSE IF IsDuplicate(c, match) /\ c.duplicates_action = "quarantine"
        THEN move_to_quarantine(c, e, f, match, io)
        ELSE move_to_main(c, e, f, match, io)

\* FolderMover.move_folder (mover.py 422-562)
FolderMover_move_folder(c, e, f, match, io) ==
    LET Skip(st) == Counted(e, f, MoveResult(match.case_id, match.source_path, None, st))
    IN  IF IsExcluded(c, match) THEN Skip("SKIPPED_EXCLUDED")
        ELSE IF IsResumed(e, match) THEN Skip("SKIPPED_RESUME")
        ELSE IF ~SourceExists(f, match.source_path) THEN Skip("SKIPPED_MISSING")
        ELSE IF IsDuplicate(c, match) /\ c.duplicates_action = "skip"
        THEN Skip("SKIPPED_DUPLICATE")
        ELSE IF IsDuplicate(c, match) /\ c.duplicates_action = "quarantine"
        THEN move_to_quarantine(c, e, f, match, io)
        ELSE move_to_main(c, e, f, match, io)

\* OP_STATUSES of move_all (mover.py 640-649)
OP_STATUSES ==
    {"SUCCESS", "SUCCESS_RENAMED", "QUARANTINED", "QUARANTINED_RENAMED",
     "DRY_RUN", "DRY_RUN_RENAMED", "DRY_RUN_QUARANTINE", "DRY_RUN_QUARANTINE_RENAMED"}

\* faulty variant: the loop stops only once the budget is exceeded
BudgetExceeded(c, ops_count) ==
    c.max_moves # None /\ ops_count > c.max_moves[1]

\* faulty variant: a budget of zero or less counts as no budget
BudgetPositiveOnly(c, ops_count) ==
    c.max_moves # None /\ c.max_moves[1] > 0 /\ ops_count >= c.max_moves[1]

\* the loop head of move_all (mover.py 659-666): the loop goes on with the
\* match at position i while there is one and the budget is not used up
BudgetReached(c, ops_count) ==
    c.max_moves # None /\ ops_count >= c.max_moves[1]

LoopPc(c, matches, i, ops_count) ==
    IF i > Len(matches) \/ BudgetReached(c, ops_count) THEN "returned" ELSE "loop"

Idle == [pc |-> "idle", matches |-> <<>>, i |-> 1, results |-> <<>>, ops_count |-> 0]

\* move_all up to the first loop test (mover.py 635-661)
BeginBatch(c, matches) ==
    [pc |-> LoopPc(c, matches, 1, 0), matches |-> matches, i |-> 1,
     results |-> <<>>, ops_count |-> 0]

\* faulty variant: only operations are appended to the results
LoopIterDropsSkips(c, e, f, b, io) ==
    LET r == FolderMover_move_folder(c, e, f, b.matches[b.i], io)
        op == r.result.status \in OP_STATUSES
        ops == IF op THEN b.ops_count + 1 ELSE b.ops_count
    IN  IF r.raised
        THEN [eng |-> r.eng, fs |-> r.fs, batch |-> [b EXCEPT !.pc = "raised"]]
        ELSE [eng |-> r.eng, fs |-> r.fs,
              batch |-> [b EXCEPT !.pc = LoopPc(c, b.matches, b.i + 1, ops),
                                  !.i = b.i + 1,
                                  !.results = IF op THEN Append(@, r.result) ELSE @,
                                  !.ops_count = ops]]

\* one iteration of the loop of move_all and the loop test that follows it
\* (mover.py 659-683); b.pc = "loop"
LoopIter(c, e, f, b, io) ==
    LET r == FolderMover_move_folder(c, e, f, b.matches[b.i], io)
        ops == IF r.result.status \in OP_STATUSES THEN b.ops_count + 1 ELSE b.ops_count
    IN  IF r.raised
        THEN [eng |-> r.eng, fs |-> r.fs, batch |-> [b EXCEPT !.pc = "raised"]]
        ELSE [eng |-> r.eng, fs |-> r.fs,
              batch |-> [b EXCEPT !.pc = LoopPc(c, b.matches, b.i + 1, ops),
                                  !.i = b.i + 1,
                                  !.results = Append(@, r.result),
                                  !.ops_count = ops]]

(***************************************************************************)
(* The engine as a state machine: one FolderMover, constructed over some   *)
(* configuration and filesystem, on which move_all and                     *)
(* move_folder are called.  A session is one batch (move_all) or a series  *)
(* of direct move_folder calls, with at most MaxMatches matches handled.   *)
(***************************************************************************)
MatchSet ==
    {FolderMatch(CidX, "s1"), FolderMatch(CidX, "s2"),
     FolderMatch(CidY, "s1"), FolderMatch(CidX, "s3")}

\* the match lists handed to move_all: one Match per (identifier, folder)
\* pair, as the pipeline builds them (cli.py 553-561), in any order
MatchLists ==
    {ms \in UNION {[1..n -> MatchSet] : n \in 0..MaxMatches} :
        \A i, j \in 1..Len(ms) : ms[i] = ms[j] => i = j}

Configs ==
    [dry_run : BOOLEAN,
     max_moves : {None, <<0>>, <<1>>, <<2>>},
     exclude_patterns : {<<>>, << <<"t", "*">> >>},
     on_dest_exists : {"rename", "skip"},
     already_moved_paths : {{}, {RawPath("s3")}},
     duplicates_action : {"quarantine", "skip", "move-all"},
     duplicate_case_ids : {{CidX}}]

QuarantinedA == {<<DUPLICATES_FOLDER>>, <<DUPLICATES_FOLDER, CidX>>,
                 <<DUPLICATES_FOLDER, CidX, NameA>>}

\* s1 and s2 are folders; s3 is a folder, a file or gone.  dest_root is
\* empty, holds A, or holds an A quarantined earlier for identifier X.
InitialFs ==
    {[src |-> [id \in Sources |-> IF id = "s3" THEN k ELSE "dir"],
      dest |-> d, fill |-> 0] :
        k \in {"dir", "absent", "file"}, d \in {{}, {<<NameA>>}, QuarantinedA}}

Init ==
    /\ cfg \in Configs
    /\ fs \in InitialFs
    /\ fs0 = fs
    /\ eng = NewEngine(cfg)
    /\ batch = Idle
    /\ outcomes = <<>>
    /\ calls = 0
    /\ twin = <<>>
    /\ rs = <<>>
    /\ mt = <<>>
    /\ sc = <<>>
    /\ cli = <<>>
    /\ rp = <<>>
    /\ gui = <<>>

\* move_all(matches) is called
MoveAllBegin ==
    /\ batch.pc = "idle"
    /\ outcomes = <<>>
    /\ \E ms \in MatchLists :
          /\ calls + Len(ms) <= MaxMatches
          /\ batch' = BeginBatch(cfg, ms)
    /\ UNCHANGED <<cfg, fs, fs0, eng, outcomes, calls, twin, rs, mt, sc, cli, rp, gui>>

\* one iteration of the loop of move_all
MoveAllIter ==
    /\ batch.pc = "loop"
    /\ \E io \in IO :
          \E r \in {LoopIter(cfg, eng, fs, batch, io)} :
              /\ eng' = r.eng
              /\ fs' = r.fs
              /\ batch' = r.batch
              /\ outcomes' = outcomes \o SubSeq(r.batch.results,
                                                 Len(batch.results) + 1,
                                                 Len(r.batch.results))
    /\ calls' = calls + 1
    /\ UNCHANGED <<cfg, fs0, twin, rs, mt, sc, cli, rp, gui>>

\* mover.move_folder(match) is called directly, outside move_all; the method
\* does not read max_moves, so the model makes these calls on the engines
\* constructed without a budget
MoveFolderCall ==
    /\ batch.pc = "idle"
    /\ cfg.max_moves = None
    /\ calls < MaxMatches
    /\ \E m \in MatchSet, io \in IO :
          \E r \in {FolderMover_move_folder(cfg, eng, fs, m, io)} :
              /\ eng' = r.eng
              /\ fs' = r.fs
              /\ batch' = IF r.raised THEN [Idle EXCEPT !.pc = "raised"] ELSE Idle
              /\ outcomes' = IF r.raised THEN outcomes ELSE Append(outcomes, r.result)
    /\ calls' = calls + 1
    /\ UNCHANGED <<cfg, fs0, twin, rs, mt, sc, cli, rp, gui>>

Next == MoveAllBegin \/ MoveAllIter \/ MoveFolderCall

Spec == Init /\ [][Next]_vars

(***************************************************************************)
(* The engine over a destination that holds A and A_1 .. A_10000: the      *)
(* same operations as in Spec, on a directory where no name is left for a  *)
(* folder called A.                                                        *)
(***************************************************************************)
ExhaustedFs ==
    [src |-> [id \in Sources |-> "dir"], dest |-> {<<NameA>>}, fill |-> MAX_ATTEMPTS]

InitExhaust ==
    /\ cfg \in {c \in Configs : /\ c.max_moves = None
                                /\ c.exclude_patterns = <<>>
                                /\ c.already_moved_paths = {}
                                /\ c.on_dest_exists = "rename"
                                /\ c.duplicates_action # "move-all"}
    /\ fs = ExhaustedFs
    /\ fs0 = fs
    /\ eng = NewEngine(cfg)
    /\ batch = Idle
    /\ outcomes = <<>>
    /\ calls = 0
    /\ twin = <<>>
    /\ rs = <<>>
    /\ mt = <<>>
    /\ sc = <<>>
    /\ cli = <<>>
    /\ rp = <<>>
    /\ gui = <<>>

SpecExhaust == InitExhaust /\ [][Next]_vars

(***************************************************************************)
(* A live engine and a dry-run engine side by side: the same configuration *)
(* apart from dry_run, the same initial filesystem (each engine on its own *)
(* copy), the same match list, and an environment in which no makedirs and *)
(* no move fails.  twin is the dry-run engine.                             *)
(***************************************************************************)
InitSym ==
    /\ cfg \in {c \in Configs : ~c.dry_run /\ c.max_moves \in {None, <<1>>}}
    /\ fs \in InitialFs
    /\ fs0 = fs
    /\ eng = NewEngine(cfg)
    /\ batch = Idle
    /\ outcomes = <<>>
    /\ calls = 0
    /\ twin = [cfg |-> [cfg EXCEPT !.dry_run = TRUE], fs |-> fs,
               eng |-> NewEngine([cfg EXCEPT !.dry_run = TRUE]), batch |-> Idle]
    /\ rs = <<>>
    /\ mt = <<>>
    /\ sc = <<>>
    /\ cli = <<>>
    /\ rp = <<>>
    /\ gui = <<>>

\* move_all(matches) is called on both engines
SymBegin ==
    /\ batch.pc = "idle"
    /\ \E ms \in MatchLists :
          /\ batch' = BeginBatch(cfg, ms)
          /\ twin' = [twin EXCEPT !.batch = BeginBatch(twin.cfg, ms)]
    /\ UNCHANGED <<cfg, fs, fs0, eng, outcomes, calls, rs, mt, sc, cli, rp, gui>>

\* each engine whose loop is still running handles its next match
SymIter ==
    /\ batch.pc = "loop" \/ twin.batch.pc = "loop"
    /\ IF batch.pc = "loop"
       THEN \E r \in {LoopIter(cfg, eng, fs, batch, "ok")} :
               /\ eng' = r.eng
               /\ fs' = r.fs
               /\ batch' = r.batch
               /\ outcomes' = outcomes \o SubSeq(r.batch.results,
                                                 Len(batch.results) + 1,
                                                 Len(r.batch.results))
               /\ calls' = calls + 1
       ELSE UNCHANGED <<eng, fs, batch, outcomes, calls, sc, cli, rp, gui>>
    /\ IF twin.batch.pc = "loop"
       THEN \E r \in {LoopIter(twin.cfg, twin.eng, twin.fs, twin.batch, "ok")} :
               twin' = [twin EXCEPT !.eng = r.eng, !.fs = r.fs, !.batch = r.batch]
       ELSE UNCHANGED twin
    /\ UNCHANGED <<cfg, fs0, rs, mt, sc, cli, rp, gui>>

NextSym == SymBegin \/ SymIter

SpecSym == InitSym /\ [][NextSym]_vars

(***************************************************************************)
(* Claims about the engine, checked under Spec.                            *)
(***************************************************************************)
\* the match an outcome belongs to
MatchOf(res) == FolderMatch(res.case_id, res.source_path.id)

\* the four conditions of the engine's checks, stated on the configuration
\* and on the filesystem f
ExcludedByConfig(m) ==
    \E i \in 1..Len(cfg.exclude_patterns) :
        PatternMatches(m.folder_name, cfg.exclude_patterns[i])

InResumeSet(m) == \E p \in cfg.already_moved_paths : p.id = m.source_path.id

SourceMissing(f, m) == f.src[m.source_path.id] = "absent"

DuplicateSkipped(m) ==
    m.case_id \in cfg.duplicate_case_ids /\ cfg.duplicates_action = "skip"

\* C1: FolderMover.move_folder evaluates exclusion, resume, missing source and
\* duplicate policy in this order: whenever a call returns an outcome, its
\* status is that of the first of these checks that applies to the match.
C1_CheckOrder ==
    [][Len(outcomes') = Len(outcomes) + 1 =>
        LET res == outcomes'[Len(outcomes')]
            m == MatchOf(res)
            ex == ExcludedByConfig(m)
            rm == InResumeSet(m)
            ms == SourceMissing(fs, m)
            dp == DuplicateSkipped(m)
        IN  /\ res.status = "SKIPPED_EXCLUDED" <=> ex
            /\ res.status = "SKIPPED_RESUME" <=> (~ex /\ rm)
            /\ res.status = "SKIPPED_MISSING" <=> (~ex /\ ~rm /\ ms)
            /\ res.status = "SKIPPED_DUPLICATE" <=> (~ex /\ ~rm /\ ~ms /\ dp)]_vars

\* a match to which all four checks apply at once came out SKIPPED_EXCLUDED
C1_Witness ==
    \E i \in 1..Len(outcomes) :
        LET m == MatchOf(outcomes[i])
        IN  /\ outcomes[i].status = "SKIPPED_EXCLUDED"
            /\ InResumeSet(m)
            /\ SourceMissing(fs0, m)
            /\ DuplicateSkipped(m)

\* the number of outcomes with an operation status in a result list
OpStatuses ==
    {"SUCCESS", "SUCCESS_RENAMED", "QUARANTINED", "QUARANTINED_RENAMED",
     "DRY_RUN", "DRY_RUN_RENAMED", "DRY_RUN_QUARANTINE", "DRY_RUN_QUARANTINE_RENAMED"}

OpCount(results) ==
    Cardinality({i \in 1..Len(results) : results[i].status \in OpStatuses})

InBatch == batch.pc \in {"loop", "returned"}

\* C2: move_all returns a list no longer than its input, whose i-th outcome
\* carries the identifier of the i-th match, and as long as the input unless
\* the operation budget was reached before the last match.
C2_OutcomesArePrefix ==
    InBatch =>
        /\ Len(batch.results) <= Len(batch.matches)
        /\ \A i \in 1..Len(batch.results) :
              batch.results[i].case_id = batch.matches[i].case_id
        /\ batch.pc = "loop" => Len(batch.results) = batch.i - 1
        /\ batch.pc = "returned" =>
              \/ Len(batch.results) = Len(batch.matches)
              \/ /\ cfg.max_moves # None
                 /\ OpCount(batch.results) >= cfg.max_moves[1]

\* a batch of three matches returned two outcomes, the first a skip
C2_Witness ==
    /\ batch.pc = "returned"
    /\ Len(batch.matches) = 3
    /\ Len(batch.results) = 2
    /\ batch.results[1].status = "SKIPPED_DUPLICATE"

\* the source folder of every match left without an outcome is as it was
\* at construction
UnprocessedSourcesUntouched ==
    \A j \in (Len(batch.results) + 1)..Len(batch.matches) :
        fs.src[batch.matches[j].source_path.id] = fs0.src[batch.matches[j].source_path.id]

LiveStatuses == {"SUCCESS", "SUCCESS_RENAMED", "QUARANTINED", "QUARANTINED_RENAMED"}

DryStatuses == {"DRY_RUN", "DRY_RUN_RENAMED", "DRY_RUN_QUARANTINE",
                "DRY_RUN_QUARANTINE_RENAMED"}

\* C5: an engine constructed with dry_run=True never changes the filesystem
\* (every source folder is still there, nothing is created under dest_root)
\* and returns no SUCCESS or QUARANTINED status; a live engine returns no
\* DRY_RUN status.
C5_DryRunChangesNothing ==
    /\ cfg.dry_run =>
          /\ fs = fs0
          /\ \A i \in 1..Len(outcomes) : outcomes[i].status \notin LiveStatuses
    /\ ~cfg.dry_run =>
          \A i \in 1..Len(outcomes) : outcomes[i].status \notin DryStatuses

\* a dry run reported a plain move and a renamed quarantine
C5_Witness ==
    /\ cfg.dry_run
    /\ \E i \in 1..Len(outcomes) : outcomes[i].status = "DRY_RUN"
    /\ \E i \in 1..Len(outcomes) : outcomes[i].status = "DRY_RUN_QUARANTINE_RENAMED"

\* C6: within one session no two outcomes with an operation status have the
\* same dest_path, in dry-run as in live mode.
C6_DestinationsDistinct ==
    \A i, j \in 1..Len(outcomes) :
        (i < j /\ outcomes[i].status \in OpStatuses /\ outcomes[j].status \in OpStatuses)
        => outcomes[i].dest_path # outcomes[j].dest_path

\* a dry run gave two folders of the same name the original name and name_1
C6_Witness ==
    /\ cfg.dry_run
    /\ Len(outcomes) >= 2
    /\ outcomes[1].status = "DRY_RUN"
    /\ outcomes[1].dest_path = <<NameA>>
    /\ outcomes[2].status = "DRY_RUN_RENAMED"
    /\ outcomes[2].dest_path = <<Suffixed(NameA, 1)>>
    /\ outcomes[1].source_path # outcomes[2].source_path

\* the dry-run status that corresponds to a live status
DryOf(status) ==
    CASE status = "SUCCESS" -> "DRY_RUN"
      [] status = "SUCCESS_RENAMED" -> "DRY_RUN_RENAMED"
      [] status = "QUARANTINED" -> "DRY_RUN_QUARANTINE"
      [] status = "QUARANTINED_RENAMED" -> "DRY_RUN_QUARANTINE_RENAMED"
      [] OTHER -> status

ShorterLen(a, b) == IF Len(a) <= Len(b) THEN Len(a) ELSE Len(b)

\* C4 (checked under SpecSym): for the same configuration apart from dry_run,
\* the same initial filesystem and the same match list, the dry-run engine
\* and the live engine produce, match by match, corresponding statuses and
\* the same dest_path.
C4_DryLiveSymmetric ==
    \A i \in 1..ShorterLen(batch.results, twin.batch.results) :
        /\ twin.batch.results[i].status = DryOf(batch.results[i].status)
        /\ twin.batch.results[i].dest_path = batch.results[i].dest_path

\* C10 (checked under SpecExhaust): whatever happens while one match is
\* handled, move_all records one outcome for it and goes on to the next
\* match; it does not raise.
C10_NoMatchAbortsBatch ==
    /\ ~(batch.pc = "raised" /\ Len(batch.matches) > 0)
    /\ batch.pc = "loop" => Len(batch.results) = batch.i - 1

(***************************************************************************)
(* The resolver harness: successive resolve_destination calls for one      *)
(* desired name, the caller adding each returned basename to the claimed   *)
(* set before the next call (as mover.py 416-418 and 531-533 do), while    *)
(* the destination directory may gain entries between the calls.           *)
(***************************************************************************)
NameA1 == Suffixed(NameA, 1)
NameA2 == Suffixed(NameA, 2)
NameALast == Suffixed(NameA, MAX_ATTEMPTS)

ResolveNames == {NameA, NameA1}
GainNames == {NameA2, NameALast}

NoFs == [src |-> <<>>, dest |-> {}, fill |-> 0]
NoCall == [fs |-> NoFs, claimed |-> {}]

\* the inputs of the harness: an ordinary directory with any claimed set, or
\* a directory holding A and A_1 .. A_n for n one below or at the ceiling
ResolveInputs ==
    {[fs |-> [src |-> <<>>, dest |-> d, fill |-> 0], claimed |-> c] :
        d \in SUBSET {<<NameA>>, <<NameA1>>}, c \in SUBSET {NameA, NameA1, NameA2}}
    \cup
    {[fs |-> [src |-> <<>>, dest |-> {<<NameA>>}, fill |-> n], claimed |-> c] :
        n \in {MAX_ATTEMPTS - 1, MAX_ATTEMPTS}, c \in {{}, {NameALast}}}

InitResolve ==
    /\ \E in \in ResolveInputs, n \in ResolveNames :
          /\ fs = in.fs
          /\ fs0 = in.fs
          /\ rs = [name |-> n, claimed |-> in.claimed, hist |-> <<>>,
                   raised |-> FALSE, last |-> <<>>, arg |-> NoCall]
    /\ cfg = <<>>
    /\ eng = <<>>
    /\ batch = <<>>
    /\ outcomes = <<>>
    /\ calls = 0
    /\ twin = <<>>
    /\ mt = <<>>
    /\ sc = <<>>
    /\ cli = <<>>
    /\ rp = <<>>
    /\ gui = <<>>

\* one call, and the caller's claimed.add(dest_name)
ResolveCall ==
    /\ ~rs.raised
    /\ Len(rs.hist) < MaxResolves
    /\ \E r \in {resolve_destination(fs, <<>>, rs.name, rs.claimed)} :
           rs' = IF r.raised
                 THEN [rs EXCEPT !.raised = TRUE,
                                 !.arg = [fs |-> fs, claimed |-> rs.claimed]]
                 ELSE [rs EXCEPT !.hist = Append(@, r.counter),
                                 !.last = r.path,
                                 !.claimed = @ \cup {Basename(r.path)},
                                 !.arg = [fs |-> fs, claimed |-> rs.claimed]]
    /\ UNCHANGED <<cfg, fs, fs0, eng, batch, outcomes, calls, twin, mt, sc, cli, rp, gui>>

\* something else creates an entry in the directory between two calls
DiskGain ==
    /\ ~rs.raised
    /\ Len(rs.hist) < MaxResolves
    /\ \E n \in GainNames :
          /\ <<n>> \notin fs.dest
          /\ fs' = [fs EXCEPT !.dest = @ \cup {<<n>>}]
    /\ UNCHANGED <<cfg, fs0, eng, batch, outcomes, calls, twin, rs, mt, sc, cli, rp, gui>>

NextResolve == ResolveCall \/ DiskGain

SpecResolve == InitResolve /\ [][NextResolve]_vars

(***************************************************************************)
(* Claims about resolve_destination, checked under SpecResolve.            *)
(***************************************************************************)
\* name was taken, on disk or in the claimed set, when the last call was made
TakenAtCall(name) ==
    PathExists(rs.arg.fs, <<name>>) \/ name \in rs.arg.claimed

\* a call has returned a path (the last call did not raise)
Resolved == Len(rs.hist) > 0 /\ ~rs.raised

\* the number behind "<desired name>_" in a returned basename, 0 without one
SuffixNumber(b) ==
    IF b = rs.name THEN 0
    ELSE Val(SubSeq(b, Len(rs.name) + 2, Len(b)))

\* C7: resolve_destination never returns a path that exists on disk or whose
\* basename is claimed; it returns dest_root/name when that is free, and
\* otherwise dest_root/name_k for the smallest k >= 1 with name_k free.
C7_ResolveFirstFree ==
    Resolved =>
        LET b == Basename(rs.last)
            k == SuffixNumber(b)
        IN  /\ rs.last = <<b>>
            /\ ~TakenAtCall(b)
            /\ k = rs.hist[Len(rs.hist)]
            /\ IF ~TakenAtCall(rs.name)
               THEN b = rs.name
               ELSE /\ k >= 1
                    /\ b = Suffixed(rs.name, k)
                    /\ \A j \in 1..(k - 1) : TakenAtCall(Suffixed(rs.name, j))

C7_Witness ==
    /\ Resolved
    /\ rs.hist[Len(rs.hist)] = 2
    /\ rs.name = NameA
    /\ <<NameA>> \in rs.arg.fs.dest
    /\ NameA1 \in rs.arg.claimed

\* C8: with every returned basename added to the claimed set before the next
\* call and a disk that only gains entries, the suffix numbers returned for
\* one desired name strictly increase (the unsuffixed name counts as 0).
C8_SuffixesIncrease ==
    \A i \in 1..(Len(rs.hist) - 1) : rs.hist[i] < rs.hist[i + 1]

C8_Witness ==
    /\ Len(rs.hist) = 3
    /\ rs.hist[1] = 0
    /\ rs.hist[3] > 2

\* C9: the call fails exactly when the desired name and name_1 .. name_10000
\* are all taken; while one of these 10,001 candidates is free it returns.
AllCandidatesTaken ==
    /\ TakenAtCall(rs.name)
    /\ \A k \in 1..MAX_ATTEMPTS : TakenAtCall(Suffixed(rs.name, k))

C9_ResolveBounded ==
    (Len(rs.hist) > 0 \/ rs.raised) => (rs.raised <=> AllCandidatesTaken)

\* name_10000 was returned as the first free candidate, and the next call,
\* with all 10,001 candidates taken, failed
C9_Witness ==
    /\ rs.raised
    /\ Len(rs.hist) > 0
    /\ rs.hist[Len(rs.hist)] = MAX_ATTEMPTS

(***************************************************************************)
(* Two runs over one filesystem: a live engine handles a batch, then a     *)
(* fresh engine of the same configuration handles the same batch over what *)
(* the first run left.  One of the folders, sd, is dest_root/A itself.     *)
(* twin keeps the outcomes of the first run once the second has begun.     *)
(***************************************************************************)
RerunMatchSet ==
    {FolderMatch(CidY, "sd"), FolderMatch(CidY, "s1"), FolderMatch(CidX, "s2")}

RerunMatchLists ==
    {ms \in UNION {[1..n -> RerunMatchSet] : n \in 0..MaxMatches} :
        \A i, j \in 1..Len(ms) : ms[i] = ms[j] => i = j}

InitRerun ==
    /\ cfg \in {c \in Configs : /\ ~c.dry_run
                                /\ c.max_moves = None
                                /\ c.exclude_patterns = <<>>
                                /\ c.already_moved_paths = {}}
    /\ fs \in {[src |-> [id \in Sources |-> "dir"], dest |-> d, fill |-> 0] :
                   d \in {{}, {<<NameA>>}}}
    /\ fs0 = fs
    /\ eng = NewEngine(cfg)
    /\ batch = Idle
    /\ outcomes = <<>>
    /\ calls = 0
    /\ twin = <<>>
    /\ rs = <<>>
    /\ mt = <<>>
    /\ sc = <<>>
    /\ cli = <<>>
    /\ rp = <<>>
    /\ gui = <<>>

\* move_all(matches) is called on the engine of the current run; the second
\* run is given the match list of the first
RerunBegin ==
    /\ batch.pc = "idle"
    /\ \E ms \in (IF twin = <<>> THEN RerunMatchLists ELSE {twin.matches}) :
          batch' = BeginBatch(cfg, ms)
    /\ UNCHANGED <<cfg, fs, fs0, eng, outcomes, calls, twin, rs, mt, sc, cli, rp, gui>>

\* the first run is over: FolderMover(dest_root, ...) is constructed again
\* with the same arguments
SecondRun ==
    /\ batch.pc = "returned"
    /\ twin = <<>>
    /\ twin' = [first |-> outcomes, matches |-> batch.matches]
    /\ eng' = NewEngine(cfg)
    /\ batch' = Idle
    /\ outcomes' = <<>>
    /\ calls' = 0
    /\ UNCHANGED <<cfg, fs, fs0, rs, mt, sc, cli, rp, gui>>

NextRerun == RerunBegin \/ MoveAllIter \/ SecondRun

SpecRerun == InitRerun /\ [][NextRerun]_vars

\* the first run returned a success status for match m
SucceededBefore(m) ==
    /\ twin # <<>>
    /\ \E i \in 1..Len(twin.first) :
          /\ twin.first[i].status \in LiveStatuses
          /\ twin.first[i].case_id = m.case_id
          /\ twin.first[i].source_path = m.source_path

\* C11 (checked under SpecRerun): when a live run returned a success status
\* for a match, a fresh engine with the same configuration handling the
\* same match returns SKIPPED_MISSING and changes nothing on disk.
C11_SecondRunSkipsMissing ==
    [][(batch.pc = "loop" /\ SucceededBefore(batch.matches[batch.i])
        /\ Len(outcomes') = Len(outcomes) + 1)
       => /\ outcomes'[Len(outcomes')].status = "SKIPPED_MISSING"
          /\ fs' = fs]_vars

(***************************************************************************)
(* Claims about the destination policy of the engine, checked under Spec.  *)
(***************************************************************************)
\* the match gets past the exclusion, resume and missing-source checks
PassesChecks(f, m) ==
    ~ExcludedByConfig(m) /\ ~InResumeSet(m) /\ ~SourceMissing(f, m)

\* the identifier of the match is one of the duplicate identifiers
IsDuplicateId(m) == m.case_id \in cfg.duplicate_case_ids

\* the match is handled by the main branch
MainBranch(f, m) ==
    /\ PassesChecks(f, m)
    /\ ~(IsDuplicateId(m) /\ cfg.duplicates_action \in {"skip", "quarantine"})

\* name is taken in dest_root: it exists on disk f or was claimed in session e
TakenInRoot(f, e, name) == PathExists(f, <<name>>) \/ name \in e.claimed_names

\* path is dest_root/name_k for the smallest k >= 1 with name_k not taken
FirstFreeSuffixed(f, e, name, path) ==
    \E k \in 1..(MaxMatches + 2) :
        /\ path = <<Suffixed(name, k)>>
        /\ ~TakenInRoot(f, e, Suffixed(name, k))
        /\ \A j \in 1..(k - 1) : TakenInRoot(f, e, Suffixed(name, j))

\* C12: a main-branch match whose original name exists in dest_root on disk
\* or was claimed earlier in the session yields, with on_dest_exists=skip,
\* SKIPPED_EXISTS with the source still in place and nothing created; with
\* on_dest_exists=rename it is not skipped but resolved to the first free
\* suffixed name, under which a live engine moves it (a dry run reports it)
\* unless the move primitive ends in ERROR.
C12_SkipOrRenameOnExisting ==
    [][Len(outcomes') = Len(outcomes) + 1 =>
        LET res == outcomes'[Len(outcomes')]
            m == MatchOf(res)
        IN  (MainBranch(fs, m) /\ TakenInRoot(fs, eng, m.folder_name)) =>
               IF cfg.on_dest_exists = "skip"
               THEN /\ res.status = "SKIPPED_EXISTS"
                    /\ res.dest_path = <<m.folder_name>>
                    /\ fs' = fs
               ELSE /\ res.status \in {"SUCCESS_RENAMED", "DRY_RUN_RENAMED", "ERROR"}
                    /\ res.status = "SUCCESS_RENAMED" =>
                          /\ ~cfg.dry_run
                          /\ FirstFreeSuffixed(fs, eng, m.folder_name, res.dest_path)
                          /\ res.dest_path \in fs'.dest
                          /\ fs'.src[m.source_path.id] = "absent"
                    /\ res.status = "DRY_RUN_RENAMED" =>
                          /\ cfg.dry_run
                          /\ FirstFreeSuffixed(fs, eng, m.folder_name, res.dest_path)
                    /\ res.status = "ERROR" => fs'.src = fs.src]_vars

\* with on_dest_exists=skip a dry run reported a move to A and then skipped
\* a second folder named A, whose name was claimed but is not on disk
C12_Witness ==
    /\ cfg.on_dest_exists = "skip"
    /\ cfg.dry_run
    /\ Len(outcomes) >= 2
    /\ outcomes[1].status = "DRY_RUN"
    /\ outcomes[1].dest_path = <<NameA>>
    /\ outcomes[2].status = "SKIPPED_EXISTS"
    /\ outcomes[2].dest_path = <<NameA>>
    /\ <<NameA>> \notin fs.dest

(***************************************************************************)
(* The engine with duplicates_action=quarantine, where one or both of the  *)
(* identifiers are duplicate identifiers: the operations of Spec.          *)
(***************************************************************************)
InitQuar ==
    /\ \E c \in Configs, ids \in {{CidX}, {CidX, CidY}} :
          /\ c.duplicates_action = "quarantine"
          /\ c.max_moves = None
          /\ c.exclude_patterns = <<>>
          /\ c.already_moved_paths = {}
          /\ cfg = [c EXCEPT !.duplicate_case_ids = ids]
    /\ fs \in InitialFs
    /\ fs0 = fs
    /\ eng = NewEngine(cfg)
    /\ batch = Idle
    /\ outcomes = <<>>
    /\ calls = 0
    /\ twin = <<>>
    /\ rs = <<>>
    /\ mt = <<>>
    /\ sc = <<>>
    /\ cli = <<>>
    /\ rp = <<>>
    /\ gui = <<>>

SpecQuar == InitQuar /\ [][Next]_vars

\* name is taken in the quarantine sub-directory of identifier cid: it exists
\* there on disk f or was claimed for cid in session e
TakenInQuarantine(f, e, cid, name) ==
    \/ PathExists(f, <<DUPLICATES_FOLDER, cid, name>>)
    \/ (cid \in DOMAIN e.quarantine_claimed /\ name \in e.quarantine_claimed[cid])

\* path is dest_root/_DUPLICATES/cid/name_k for the smallest k >= 1 with
\* name_k not taken there
FirstFreeQuarantined(f, e, cid, name, path) ==
    \E k \in 1..(MaxMatches + 2) :
        /\ path = <<DUPLICATES_FOLDER, cid, Suffixed(name, k)>>
        /\ ~TakenInQuarantine(f, e, cid, Suffixed(name, k))
        /\ \A j \in 1..(k - 1) : TakenInQuarantine(f, e, cid, Suffixed(name, j))

QuarantineStatuses ==
    {"QUARANTINED", "QUARANTINED_RENAMED",
     "DRY_RUN_QUARANTINE", "DRY_RUN_QUARANTINE_RENAMED"}

MainStatuses ==
    {"SUCCESS", "SUCCESS_RENAMED", "DRY_RUN", "DRY_RUN_RENAMED",
     "SKIPPED_EXISTS", "ERROR"}

\* C14 (checked under Spec): a match that passed the exclusion, resume and
\* missing-source checks is SKIPPED_DUPLICATE, with nothing moved, iff its
\* identifier is a duplicate identifier and duplicates_action is skip; it
\* takes the quarantine branch (a name is claimed for its identifier, the
\* destination lies under _DUPLICATES) iff its identifier is a duplicate
\* identifier and duplicates_action is quarantine; in every other case it
\* takes the main branch: the destination lies directly in dest_root and
\* nothing is created under _DUPLICATES.
C14_DuplicateDispatch ==
    [][Len(outcomes') = Len(outcomes) + 1 =>
        LET res == outcomes'[Len(outcomes')]
            m == MatchOf(res)
            skip == IsDuplicateId(m) /\ cfg.duplicates_action = "skip"
            quar == IsDuplicateId(m) /\ cfg.duplicates_action = "quarantine"
            created == fs'.dest \ fs.dest
        IN  PassesChecks(fs, m) =>
               /\ res.status = "SKIPPED_DUPLICATE" <=> skip
               /\ skip => (fs' = fs /\ res.dest_path = None
                           /\ eng'.claimed_names = eng.claimed_names
                           /\ eng'.quarantine_claimed = eng.quarantine_claimed)
               /\ eng'.quarantine_claimed # eng.quarantine_claimed <=> quar
               /\ quar =>
                     /\ res.status \in QuarantineStatuses \cup {"ERROR"}
                     /\ res.dest_path # None =>
                           (Len(res.dest_path) = 3
                            /\ res.dest_path[1] = DUPLICATES_FOLDER
                            /\ res.dest_path[2] = m.case_id)
                     /\ eng'.claimed_names = eng.claimed_names
               /\ (~skip /\ ~quar) =>
                     /\ res.status \in MainStatuses
                     /\ res.dest_path # None => Len(res.dest_path) = 1
                     /\ \A path \in created : path[1] # DUPLICATES_FOLDER]_vars

\* under duplicates_action=quarantine a folder of the identifier that is not
\* a duplicate went to dest_root and a folder of the duplicate identifier
\* to _DUPLICATES
C14_Witness ==
    /\ cfg.duplicates_action = "quarantine"
    /\ Len(outcomes) >= 2
    /\ outcomes[1].case_id = CidY
    /\ outcomes[1].status = "SUCCESS"
    /\ outcomes[1].dest_path = <<NameA>>
    /\ outcomes[2].case_id = CidX
    /\ outcomes[2].status = "QUARANTINED"
    /\ outcomes[2].dest_path = <<DUPLICATES_FOLDER, CidX, NameA>>
    /\ <<DUPLICATES_FOLDER>> \notin fs0.dest

(***************************************************************************)
(* The engine over lists of exclusion patterns: the operations of Spec on  *)
(* engines constructed with up to two patterns, among them the empty       *)
(* pattern (--exclude-pattern "").                                         *)
(***************************************************************************)
EmptyPattern == <<>>

ExcludePatterns == {EmptyPattern, <<"t", "*">>, <<"a">>}

ExcludeLists == UNION {[1..n -> ExcludePatterns] : n \in 0..2}

InitExclude ==
    /\ \E c \in Configs, ps \in ExcludeLists :
          /\ c.max_moves = None
          /\ c.already_moved_paths = {}
          /\ c.on_dest_exists = "rename"
          /\ c.exclude_patterns = <<>>
          /\ cfg = [c EXCEPT !.exclude_patterns = ps]
    /\ fs \in {f \in InitialFs : f.dest = {}}
    /\ fs0 = fs
    /\ eng = NewEngine(cfg)
    /\ batch = Idle
    /\ outcomes = <<>>
    /\ calls = 0
    /\ twin = <<>>
    /\ rs = <<>>
    /\ mt = <<>>
    /\ sc = <<>>
    /\ cli = <<>>
    /\ rp = <<>>
    /\ gui = <<>>

SpecExclude == InitExclude /\ [][Next]_vars

\* C15 (checked under SpecExclude): FolderMover.move_folder returns
\* SKIPPED_EXCLUDED, moving nothing, if and only if at least one pattern of
\* exclude_patterns matches the folder name as a case-insensitive glob or is
\* a case-insensitive substring of it, whatever the other patterns and their
\* order.
C15_ExcludedIffAnyPatternMatches ==
    [][Len(outcomes') = Len(outcomes) + 1 =>
        LET res == outcomes'[Len(outcomes')]
            m == MatchOf(res)
        IN  /\ res.status = "SKIPPED_EXCLUDED" <=> ExcludedByConfig(m)
            /\ res.status = "SKIPPED_EXCLUDED" => fs' = fs]_vars

(***************************************************************************)
(* The engine with reset_stats: the operations of Spec, and reset_stats    *)
(* between calls.  outcomes holds the results returned by                  *)
(* FolderMover.move_folder since construction or the last reset_stats.     *)
(***************************************************************************)
\* MoveStatus.value (types.py 39-53)
StatusValue(st) ==
    CASE st = "SUCCESS" -> "success"
      [] st = "SUCCESS_RENAMED" -> "success_renamed"
      [] st = "SKIPPED_MISSING" -> "skipped_missing"
      [] st = "SKIPPED_EXISTS" -> "skipped_exists"
      [] st = "SKIPPED_EXCLUDED" -> "skipped_excluded"
      [] st = "SKIPPED_RESUME" -> "skipped_resume"
      [] st = "SKIPPED_DUPLICATE" -> "skipped_duplicate"
      [] st = "ERROR" -> "error"
      [] st = "DRY_RUN" -> "dry_run"
      [] st = "DRY_RUN_RENAMED" -> "dry_run_renamed"
      [] st = "QUARANTINED" -> "quarantined"
      [] st = "QUARANTINED_RENAMED" -> "quarantined_renamed"
      [] st = "DRY_RUN_QUARANTINE" -> "dry_run_quarantine"
      [] st = "DRY_RUN_QUARANTINE_RENAMED" -> "dry_run_quarantine_renamed"

\* FolderMover.get_stats (mover.py 685-692)
get_stats(e) ==
    [v \in {StatusValue(st) : st \in MoveStatus} |->
        e.stats[CHOOSE st \in MoveStatus : StatusValue(st) = v]]

\* faulty variant: the quarantine claimed names survive the reset
reset_stats_keeps_quarantine(e) ==
    [e EXCEPT !.stats = [st \in MoveStatus |-> 0],
              !.claimed_names = {}]

\* FolderMover.reset_stats (mover.py 773-777)
reset_stats(e) ==
    [e EXCEPT !.stats = [st \in MoveStatus |-> 0],
              !.claimed_names = {},
              !.quarantine_claimed = <<>>]

InitStats ==
    /\ cfg \in {c \in Configs : c.max_moves \in {None, <<1>>}}
    /\ fs \in {f \in InitialFs : f.src["s3"] # "absent" /\ f.dest # QuarantinedA}
    /\ fs0 = fs
    /\ eng = NewEngine(cfg)
    /\ batch = Idle
    /\ outcomes = <<>>
    /\ calls = 0
    /\ twin = <<>>
    /\ rs = <<>>
    /\ mt = <<>>
    /\ sc = <<>>
    /\ cli = <<>>
    /\ rp = <<>>
    /\ gui = <<>>

\* mover.reset_stats() is called between two calls
ResetStats ==
    /\ batch.pc \in {"idle", "returned"}
    /\ Len(outcomes) > 0
    /\ eng' = reset_stats(eng)
    /\ batch' = Idle
    /\ outcomes' = <<>>
    /\ UNCHANGED <<cfg, fs, fs0, calls, twin, rs, mt, sc, cli, rp, gui>>

NextStats == MoveAllBegin \/ MoveAllIter \/ MoveFolderCall \/ ResetStats

SpecStats == InitStats /\ [][NextStats]_vars

\* the number of outcomes with status st
CountOf(st) == Cardinality({i \in 1..Len(outcomes) : outcomes[i].status = st})

RECURSIVE SumOver(_, _)
SumOver(f, keys) ==
    IF keys = {} THEN 0
    ELSE LET k == CHOOSE x \in keys : TRUE
         IN  f[k] + SumOver(f, keys \ {k})

\* C16 (checked under SpecStats): after any sequence of move_folder and
\* move_all calls since construction or the last reset_stats, get_stats()[s]
\* is the number of outcomes produced with status s, for every status s, and
\* the counters add up to the number of outcomes, also when a batch stopped
\* on the budget.
C16_CountersExact ==
    LET stats == get_stats(eng)
    IN  /\ DOMAIN stats = {StatusValue(st) : st \in MoveStatus}
        /\ \A st \in MoveStatus : stats[StatusValue(st)] = CountOf(st)
        /\ SumOver(stats, DOMAIN stats) = Len(outcomes)

\* one call was made and reset_stats followed; then a batch of two matches
\* with budget 1 stopped after its first match, and one SUCCESS is counted
C16_Witness ==
    /\ calls = 2
    /\ Len(outcomes) = 1
    /\ batch.pc = "returned"
    /\ Len(batch.matches) = 2
    /\ Len(batch.results) = 1
    /\ get_stats(eng)["success"] = 1

(***************************************************************************)
(* The matcher (indexer.py 130-291).  An identifier and a folder name are  *)
(* sequences of characters; a FolderEntry is a name and a path.  The       *)
(* result of a call is the dictionary it returns, a function from the      *)
(* identifiers to lists of folders, or the exception it raises, and the    *)
(* warnings it logged.                                                     *)
(***************************************************************************)
MaxIds == 2        \* longest identifier list handed to match_caseids
MaxFolders == 2    \* longest folder list handed to match_caseids

\* FolderEntry(name, path) (types.py 16-35) of the i-th scanned folder: the
\* folders of a scan have distinct paths
FolderEntry(i, name) == [name |-> name, path |-> Str(i) \o <<"/">> \o name]

\* the elements of a list
Range(seq) == {seq[i] : i \in 1..Len(seq)}

\* {cid: [] for cid in case_ids}
EmptyResults(case_ids) == [cid \in Range(case_ids) |-> <<>>]

MatchReturned(results, warned) ==
    [raised |-> FALSE, results |-> results, warned |-> warned]

\* an IndexError leaves the call
MatchRaised(warned) == [raised |-> TRUE, results |-> <<>>, warned |-> warned]

\* cid, or cid.lower() when the match is not case-sensitive
Normalized(str, case_sensitive) == IF case_sensitive THEN str ELSE Lower(str)

\* max(len(cid) for cid in case_ids) (indexer.py 252)
RECURSIVE MaxLen(_)
MaxLen(case_ids) ==
    IF Len(case_ids) = 0 THEN 0
    ELSE LET rest == MaxLen(Tail(case_ids))
         IN  IF Len(Head(case_ids)) > rest THEN Len(Head(case_ids)) ELSE rest

\* prepared_caseids (indexer.py 245-248): pairs (original, normalized)
Prepared(case_ids, case_sensitive) ==
    [i \in 1..Len(case_ids) |->
        [original |-> case_ids[i],
         normalized |-> Normalized(case_ids[i], case_sensitive)]]

\* the pairs of a list with normalized length n, in order
RECURSIVE OfLength(_, _)
OfLength(prepared, n) ==
    IF Len(prepared) = 0 THEN <<>>
    ELSE (IF Len(Head(prepared).normalized) = n THEN <<Head(prepared)>> ELSE <<>>)
         \o OfLength(Tail(prepared), n)

\* cumulative[n] (indexer.py 260-264): the buckets 0 .. n one after another
RECURSIVE Cumulative(_, _)
Cumulative(prepared, n) ==
    IF n = 0 THEN OfLength(prepared, 0)
    ELSE Cumulative(prepared, n - 1) \o OfLength(prepared, n)

\* applicable (indexer.py 277-282)
Applicable(prepared, max_length, name_len) ==
    IF name_len = 0 THEN <<>>
    ELSE IF name_len > max_length THEN Cumulative(prepared, max_length)
    ELSE Cumulative(prepared, name_len)

\* the inner loop (indexer.py 285-288): the folder is appended to the list
\* of every applicable identifier whose normalized form is in folder_name
RECURSIVE CheckApplicable(_, _, _, _)
CheckApplicable(results, applicable, folder, folder_name) ==
    IF Len(applicable) = 0 THEN results
    ELSE LET a == Head(applicable)
             r == IF IsSubstring(a.normalized, folder_name)
                  THEN [results EXCEPT ![a.original] = Append(@, folder)]
                  ELSE results
         IN  CheckApplicable(r, Tail(applicable), folder, folder_name)

\* the loop over the folders (indexer.py 271-288)
RECURSIVE BucketLoop(_, _, _, _, _)
BucketLoop(results, prepared, max_length, folders, case_sensitive) ==
    IF Len(folders) = 0 THEN results
    ELSE LET folder == Head(folders)
             folder_name == Normalized(folder.name, case_sensitive)
             applicable == Applicable(prepared, max_length, Len(folder_name))
         IN  BucketLoop(CheckApplicable(results, applicable, folder, folder_name),
                        prepared, max_length, Tail(folders), case_sensitive)

\* _match_with_length_buckets (indexer.py 227-291).  buckets has the indices
\* 0 .. max_length, max_length being taken from the identifiers as given;
\* buckets[len(normalized)] is an IndexError for a longer normalized form.
match_with_length_buckets(case_ids, folders, case_sensitive) ==
    LET prepared == Prepared(case_ids, case_sensitive)
        max_length == MaxLen(case_ids)
    IN  IF \E i \in 1..Len(prepared) : Len(prepared[i].normalized) > max_length
        THEN MatchRaised(FALSE)
        ELSE MatchReturned(BucketLoop(EmptyResults(case_ids), prepared, max_length,
                                      folders, case_sensitive), FALSE)

\* automaton.iter(folder_name) (indexer.py 213-215): the keys of the
\* automaton that occur in the text
MatchedPatterns(patterns, folder_name) ==
    {pattern \in patterns : IsSubstring(pattern, folder_name)}

\* indexer.py 218-221 for one folder: the folder is appended once for every
\* entry of pattern_to_caseids[pattern], pattern being a matched pattern
RECURSIVE AppendPerCaseId(_, _, _, _, _)
AppendPerCaseId(results, case_ids, matched, folder, case_sensitive) ==
    IF Len(case_ids) = 0 THEN results
    ELSE LET cid == Head(case_ids)
             r == IF Normalized(cid, case_sensitive) \in matched
                  THEN [results EXCEPT ![cid] = Append(@, folder)]
                  ELSE results
         IN  AppendPerCaseId(r, Tail(case_ids), matched, folder, case_sensitive)

RECURSIVE AhoLoop(_, _, _, _)
AhoLoop(results, case_ids, folders, case_sensitive) ==
    IF Len(folders) = 0 THEN results
    ELSE LET folder == Head(folders)
             folder_name == Normalized(folder.name, case_sensitive)
             patterns == {Normalized(cid, case_sensitive) : cid \in Range(case_ids)}
             matched == MatchedPatterns(patterns, folder_name)
         IN  AhoLoop(AppendPerCaseId(results, case_ids, matched, folder, case_sensitive),
                     case_ids, Tail(folders), case_sensitive)

\* _match_with_ahocorasick (indexer.py 178-224)
match_with_ahocorasick(case_ids, folders, case_sensitive) ==
    MatchReturned(AhoLoop(EmptyResults(case_ids), case_ids, folders, case_sensitive),
                  FALSE)

\* faulty variant: the early return yields an empty dictionary
EarlyReturnNoKeys(case_ids) == MatchReturned(<<>>, FALSE)

\* the early return of match_caseids (indexer.py 157-158)
EarlyReturn(case_ids) == MatchReturned(EmptyResults(case_ids), FALSE)

\* faulty variant: without the library the aho request is served by nothing
match_caseids_no_fallback(case_ids, folders, case_sensitive, matcher, has_aho) ==
    IF Len(case_ids) = 0 \/ Len(folders) = 0 THEN EarlyReturn(case_ids)
    ELSE IF matcher = "aho"
    THEN (IF ~has_aho THEN MatchRaised(TRUE)
          ELSE match_with_ahocorasick(case_ids, folders, case_sensitive))
    ELSE match_with_length_buckets(case_ids, folders, case_sensitive)

\* match_caseids (indexer.py 130-175); has_aho is HAS_AHOCORASICK
match_caseids(case_ids, folders, case_sensitive, matcher, has_aho) ==
    IF Len(case_ids) = 0 \/ Len(folders) = 0 THEN EarlyReturn(case_ids)
    ELSE IF matcher = "aho"
    THEN (IF ~has_aho
          THEN [match_with_length_buckets(case_ids, folders, case_sensitive)
                   EXCEPT !.warned = TRUE]
          ELSE match_with_ahocorasick(case_ids, folders, case_sensitive))
    ELSE match_with_length_buckets(case_ids, folders, case_sensitive)

(***************************************************************************)
(* The matcher harness: match_caseids is called with each strategy on one  *)
(* input.  Identifiers are not empty (the automaton takes no empty key)    *)
(* and folder names are those a scan can report.                           *)
(***************************************************************************)
MatcherIds == {<<"a">>, <<"A">>, <<"a", "b">>, <<"b", "a">>, <<"J">>}

MatcherNames == {<<"a">>, <<"A", "b">>, <<"b", "a", "b">>, <<"x", "J">>}

IdLists == UNION {[1..n -> MatcherIds] : n \in 0..MaxIds}

NameLists == UNION {[1..n -> MatcherNames] : n \in 0..MaxFolders}

NoOut == <<>>

InitMatch ==
    /\ \E ids \in IdLists, names \in NameLists, cs \in BOOLEAN, has \in BOOLEAN :
          mt = [case_ids |-> ids,
                folders |-> [i \in 1..Len(names) |-> FolderEntry(i, names[i])],
                case_sensitive |-> cs, has_aho |-> has,
                bucket |-> NoOut, aho |-> NoOut]
    /\ cfg = <<>>
    /\ fs = <<>>
    /\ fs0 = <<>>
    /\ eng = <<>>
    /\ batch = <<>>
    /\ outcomes = <<>>
    /\ calls = 0
    /\ twin = <<>>
    /\ rs = <<>>
    /\ sc = <<>>
    /\ cli = <<>>
    /\ rp = <<>>
    /\ gui = <<>>

\* match_caseids(case_ids, folders, case_sensitive, matcher="bucket")
MatchBucket ==
    /\ mt.bucket = NoOut
    /\ mt' = [mt EXCEPT !.bucket = match_caseids(mt.case_ids, mt.folders,
                                                 mt.case_sensitive, "bucket", mt.has_aho)]
    /\ UNCHANGED <<cfg, fs, fs0, eng, batch, outcomes, calls, twin, rs, sc, cli, rp, gui>>

\* match_caseids(case_ids, folders, case_sensitive, matcher="aho")
MatchAho ==
    /\ mt.aho = NoOut
    /\ mt' = [mt EXCEPT !.aho = match_caseids(mt.case_ids, mt.folders,
                                              mt.case_sensitive, "aho", mt.has_aho)]
    /\ UNCHANGED <<cfg, fs, fs0, eng, batch, outcomes, calls, twin, rs, sc, cli, rp, gui>>

NextMatch == MatchBucket \/ MatchAho

SpecMatch == InitMatch /\ [][NextMatch]_vars

(***************************************************************************)
(* Claims about the matcher, checked under SpecMatch.                      *)
(***************************************************************************)
\* folder j of the input is listed under identifier cid in a result
Listed(out, cid, j) ==
    \E k \in 1..Len(out.results[cid]) : out.results[cid][k] = mt.folders[j]

\* identifier.lower() in folder_name.lower(), or the exact-case test
Contains(cid, j) ==
    IsSubstring(Normalized(cid, mt.case_sensitive),
                Normalized(mt.folders[j].name, mt.case_sensitive))

\* C17: for every identifier list, folder list and case_sensitive flag,
\* match_caseids with the bucket strategy returns a mapping that lists a
\* folder under an identifier if and only if the identifier is a contiguous
\* substring of the folder name, both lower-cased unless case_sensitive.
C17_BucketSubstringLaw ==
    mt.bucket # NoOut =>
        /\ ~mt.bucket.raised
        /\ \A cid \in Range(mt.case_ids), j \in 1..Len(mt.folders) :
              Listed(mt.bucket, cid, j) <=> Contains(cid, j)

\* a call with the given strategy has returned a mapping
Returned(out) == out # NoOut /\ ~out.raised

\* C18: the key set of the mapping match_caseids returns is exactly the set
\* of identifiers passed in, with either strategy and also when the
\* identifier list or the folder list is empty; an identifier no folder
\* name contains maps to an empty list.
C18_KeysAreIdentifiers ==
    \A out \in {mt.bucket, mt.aho} :
        Returned(out) =>
            /\ DOMAIN out.results = Range(mt.case_ids)
            /\ \A cid \in Range(mt.case_ids) :
                  (\A j \in 1..Len(mt.folders) : ~Contains(cid, j))
                      => out.results[cid] = <<>>

\* two identifiers and no folder: both strategies returned the two keys,
\* each with an empty list
C18_Witness ==
    /\ mt.has_aho
    /\ Len(mt.folders) = 0
    /\ Cardinality(Range(mt.case_ids)) = 2
    /\ Returned(mt.bucket)
    /\ Returned(mt.aho)
    /\ DOMAIN mt.aho.results = Range(mt.case_ids)
    /\ \A cid \in Range(mt.case_ids) :
          mt.bucket.results[cid] = <<>> /\ mt.aho.results[cid] = <<>>

\* the set of folder paths listed under an identifier
PathsOf(out, cid) == {out.results[cid][k].path : k \in 1..Len(out.results[cid])}

\* the two mappings have the same keys and, per key, the same set of paths
SameMapping(a, b) ==
    /\ DOMAIN a.results = DOMAIN b.results
    /\ \A cid \in DOMAIN a.results : PathsOf(a, cid) = PathsOf(b, cid)

\* C19: for all identifier lists, folder lists and both values of
\* case_sensitive, the bucket strategy and the automaton strategy return
\* mappings with the same keys and, for each identifier, the same set of
\* folder paths.
C19_MatcherEquivalence ==
    (mt.has_aho /\ mt.bucket # NoOut /\ mt.aho # NoOut) =>
        /\ Returned(mt.bucket)
        /\ Returned(mt.aho)
        /\ SameMapping(mt.bucket, mt.aho)

RECURSIVE Dedupe(_)
Dedupe(case_ids) ==
    IF Len(case_ids) = 0 THEN <<>>
    ELSE LET front == Dedupe(SubSeq(case_ids, 1, Len(case_ids) - 1))
             last  == case_ids[Len(case_ids)]
         IN  IF last \in Range(front) THEN front ELSE Append(front, last)

\* how often folder j of the input is listed under identifier cid
Occurrences(out, cid, j) ==
    Cardinality({k \in 1..Len(out.results[cid]) : out.results[cid][k] = mt.folders[j]})

\* the strategy a harness result came from
StrategyOf(out) == IF out = mt.aho THEN "aho" ELSE "bucket"

\* C21: an identifier list with a repeated identifier gives the result of
\* the list with the identifier once; each matching folder is listed
\* exactly once under its identifier.
C21_RepeatedIdsHarmless ==
    \A out \in {mt.bucket, mt.aho} :
        Returned(out) =>
            /\ \A cid \in Range(mt.case_ids), j \in 1..Len(mt.folders) :
                  Occurrences(out, cid, j) <= 1
            /\ out.results =
                  match_caseids(Dedupe(mt.case_ids), mt.folders, mt.case_sensitive,
                                StrategyOf(out), mt.has_aho).results

(***************************************************************************)
(* The matcher called with an identifier list that may hold the empty      *)
(* identifier.  The automaton library is absent here, so both requests     *)
(* are served by the bucket strategy.                                      *)
(***************************************************************************)
EmptyId == <<>>

EmptyIdLists == UNION {[1..n -> {EmptyId, <<"a">>, <<"A">>}] : n \in 0..MaxIds}

InitEmptyId ==
    /\ \E ids \in EmptyIdLists, names \in NameLists, cs \in BOOLEAN :
          mt = [case_ids |-> ids,
                folders |-> [i \in 1..Len(names) |-> FolderEntry(i, names[i])],
                case_sensitive |-> cs, has_aho |-> FALSE,
                bucket |-> NoOut, aho |-> NoOut]
    /\ cfg = <<>>
    /\ fs = <<>>
    /\ fs0 = <<>>
    /\ eng = <<>>
    /\ batch = <<>>
    /\ outcomes = <<>>
    /\ calls = 0
    /\ twin = <<>>
    /\ rs = <<>>
    /\ sc = <<>>
    /\ cli = <<>>
    /\ rp = <<>>
    /\ gui = <<>>

SpecEmptyId == InitEmptyId /\ [][NextMatch]_vars

\* C22: given an identifier list that holds the empty string, match_caseids
\* rejects it or returns an empty list for it; it does not list the folders
\* under the empty identifier.
C22_EmptyIdMatchesNothing ==
    \A out \in {mt.bucket, mt.aho} :
        (out # NoOut /\ EmptyId \in Range(mt.case_ids)) =>
            \/ out.raised
            \/ out.results[EmptyId] = <<>>

(***************************************************************************)
(* The scanner (indexer.py 47-127).  A tree is a function from the paths   *)
(* of the entries below the root (sequences of names) to their kind:       *)
(* "dir" a directory, "locked" a directory os.scandir cannot list, "file"  *)
(* a file, "link" a symbolic link to a directory.  scan_folders is called  *)
(* with follow_symlinks at its default, as the CLI and the GUI call it.    *)
(* os.scandir yields the entries of a directory in any order: ScanEntry    *)
(* takes any entry not yet yielded.                                        *)
(***************************************************************************)
MaxEntries == 4      \* most entries below the scanned root

ScanNames == {"p", "q"}

ScanNodes == UNION {[1..n -> ScanNames] : n \in 1..3}

Parent(n) == SubSeq(n, 1, Len(n) - 1)

EntryKinds == {"dir", "locked", "file", "link"}

\* sets of entries in which every entry has its parent present
EntrySets ==
    {S \in SUBSET ScanNodes :
        /\ Cardinality(S) <= MaxEntries
        /\ \A n \in S : Len(n) > 1 => Parent(n) \in S}

\* trees: only directories have entries
TreesOver(S) ==
    {t \in [S -> EntryKinds] :
        \A n \in S : Len(n) > 1 => t[Parent(n)] \in {"dir", "locked"}}

ScanTrees == UNION {TreesOver(S) : S \in EntrySets}

\* the entries of directory d
Children(tree, d) == {n \in DOMAIN tree : Len(n) = Len(d) + 1 /\ Parent(n) = d}

\* faulty variant: a symbolic link to a directory counts as a directory
EntryIsDirFollowing(tree, n) == tree[n] \in {"dir", "locked", "link"}

\* entry.is_dir(follow_symlinks=False) (indexer.py 95)
EntryIsDir(tree, n) == tree[n] \in {"dir", "locked"}

\* one frame of _scan_recursive: the directory and the entries still to come
Frame(tree, d) == [dir |-> d, todo |-> Children(tree, d)]

\* faulty variant: the OSError of os.scandir leaves scan_folders
EnterUncaught(s, kind, d) ==
    IF kind = "locked"
    THEN [s EXCEPT !.pc = "raised", !.raised = "OSError"]
    ELSE [s EXCEPT !.stack = Append(@, [dir |-> d, todo |-> Children(s.tree, d)])]

\* _scan_recursive(dir_path) entered (indexer.py 91-92, 116-118): a
\* directory that cannot be listed raises OSError inside the call, which
\* counts it and returns
Enter(s, kind, d) ==
    IF kind = "locked"
    THEN [s EXCEPT !.errors = @ + 1]
    ELSE [s EXCEPT !.stack = Append(@, Frame(s.tree, d))]

InitScan ==
    /\ \E root \in {"dir", "locked", "file", "none"} :
         \E tree \in (IF root \in {"dir", "locked"} THEN ScanTrees ELSE {<<>>}) :
            sc = [root |-> root, tree |-> tree, pc |-> "start",
                  stack |-> <<>>, folders |-> <<>>, errors |-> 0,
                  raised |-> "no", listed |-> {}]
    /\ cfg = <<>>
    /\ fs = <<>>
    /\ fs0 = <<>>
    /\ eng = <<>>
    /\ batch = <<>>
    /\ outcomes = <<>>
    /\ calls = 0
    /\ twin = <<>>
    /\ rs = <<>>
    /\ mt = <<>>
    /\ cli = <<>>
    /\ rp = <<>>
    /\ gui = <<>>

\* scan_folders up to the first _scan_recursive call (indexer.py 68-120)
ScanBegin ==
    /\ sc.pc = "start"
    /\ sc' = IF sc.root = "none"
             THEN [sc EXCEPT !.pc = "raised", !.raised = "FileNotFoundError"]
             ELSE IF sc.root = "file"
             THEN [sc EXCEPT !.pc = "raised", !.raised = "NotADirectoryError"]
             ELSE Enter([sc EXCEPT !.pc = "scanning",
                                   !.listed = IF sc.root = "dir" THEN {<<>>} ELSE {}],
                        sc.root, <<>>)
    /\ UNCHANGED <<cfg, fs, fs0, eng, batch, outcomes, calls, twin, rs, mt, cli, rp, gui>>

\* one turn of the loop over os.scandir(dir_path) (indexer.py 93-110)
ScanEntry ==
    /\ sc.pc = "scanning"
    /\ sc.stack # <<>>
    /\ LET top == sc.stack[Len(sc.stack)]
       IN  \E entry \in top.todo :
             LET taken == [sc EXCEPT !.stack[Len(sc.stack)].todo = @ \ {entry}]
             IN  sc' = IF EntryIsDir(sc.tree, entry)
                       THEN Enter([taken EXCEPT
                                      !.folders = Append(@, entry),
                                      !.listed = IF sc.tree[entry] = "dir"
                                                 THEN @ \cup {entry} ELSE @],
                                  sc.tree[entry], entry)
                       ELSE taken
    /\ UNCHANGED <<cfg, fs, fs0, eng, batch, outcomes, calls, twin, rs, mt, cli, rp, gui>>

\* the loop over a directory is exhausted: _scan_recursive returns
ScanLeave ==
    /\ sc.pc = "scanning"
    /\ sc.stack # <<>>
    /\ sc.stack[Len(sc.stack)].todo = {}
    /\ sc' = [sc EXCEPT !.stack = SubSeq(@, 1, Len(@) - 1)]
    /\ UNCHANGED <<cfg, fs, fs0, eng, batch, outcomes, calls, twin, rs, mt, cli, rp, gui>>

\* return folders (indexer.py 122-127)
ScanReturn ==
    /\ sc.pc = "scanning"
    /\ sc.stack = <<>>
    /\ sc' = [sc EXCEPT !.pc = "returned"]
    /\ UNCHANGED <<cfg, fs, fs0, eng, batch, outcomes, calls, twin, rs, mt, cli, rp, gui>>

NextScan == ScanBegin \/ ScanEntry \/ ScanLeave \/ ScanReturn

SpecScan == InitScan /\ [][NextScan]_vars

(***************************************************************************)
(* Claims about the scanner, checked under SpecScan.                       *)
(***************************************************************************)
\* the root and every directory below it can be listed
AllReadable ==
    /\ sc.root = "dir"
    /\ \A n \in DOMAIN sc.tree : sc.tree[n] # "locked"

\* the directories below the root that are not symbolic links
RealDirs == {n \in DOMAIN sc.tree : sc.tree[n] \in {"dir", "locked"}}

\* every directory on the way from the root down to n, n excluded, can be listed
ReachedByListing(n) ==
    /\ sc.root = "dir"
    /\ \A k \in 1..(Len(n) - 1) : sc.tree[SubSeq(n, 1, k)] = "dir"

\* C23: when every directory is readable, the paths scan_folders returns
\* are exactly the directories strictly below the root that are reached
\* through real directories, each once, whatever the enumeration order;
\* the root, files and symbolic links to directories are not among them.
C23_ScanCompleteness ==
    (sc.pc = "returned" /\ AllReadable) =>
        /\ Range(sc.folders) = RealDirs
        /\ Len(sc.folders) = Cardinality(RealDirs)
        /\ <<>> \notin Range(sc.folders)
        /\ \A n \in DOMAIN sc.tree :
              sc.tree[n] \in {"file", "link"} => n \notin Range(sc.folders)

\* a readable tree with a nested directory, a file and a link was scanned
C23_Witness ==
    /\ sc.pc = "returned"
    /\ AllReadable
    /\ \E n \in DOMAIN sc.tree : Len(n) = 2 /\ sc.tree[n] = "dir" /\ n \in Range(sc.folders)
    /\ \E n \in DOMAIN sc.tree : sc.tree[n] = "file"
    /\ \E n \in DOMAIN sc.tree : sc.tree[n] = "link"
    /\ Len(sc.folders) = 2

\* C24: a directory that cannot be listed does not abort the scan:
\* scan_folders does not raise, nothing below the unreadable directory is
\* reported, and every directory reached through readable directories is
\* reported, the siblings of the unreadable one and their readable
\* subtrees among them.
C24_UnreadableSkipped ==
    sc.root \in {"dir", "locked"} =>
        /\ sc.pc # "raised"
        /\ sc.pc = "returned" =>
              /\ Range(sc.folders) = {n \in RealDirs : ReachedByListing(n)}
              /\ Len(sc.folders) = Cardinality(Range(sc.folders))

\* an unreadable directory with a directory in it, next to a readable
\* directory with a directory in it: the scan returned, reporting the
\* sibling's subtree and nothing below the unreadable directory
C24_Witness ==
    /\ sc.pc = "returned"
    /\ sc.errors = 1
    /\ \E u \in DOMAIN sc.tree, v \in DOMAIN sc.tree :
          /\ Len(u) = 1 /\ Len(v) = 1
          /\ sc.tree[u] = "locked" /\ sc.tree[v] = "dir"
          /\ \E c \in Children(sc.tree, u) : sc.tree[c] = "dir" /\ c \notin Range(sc.folders)
          /\ \E c \in Children(sc.tree, v) : sc.tree[c] = "dir" /\ c \in Range(sc.folders)
          /\ u \in Range(sc.folders)

(***************************************************************************)
(* The CLI main (cli.py 480-666) as the sequence of its steps: validate    *)
(* the paths, load the identifiers, scan, match, confirm, move, report.    *)
(* The source root is the root of the scanner's tree; the identifier file  *)
(* and the destination root are a file, a directory or missing.  What a    *)
(* step computes is modelled where its function is modelled (scan_folders, *)
(* match_caseids, move_all); here a step records that it ran.  In mode     *)
(* "direct" scan_folders is called on its own.                             *)
(***************************************************************************)
PathKinds == {"dir", "file", "none"}

\* Path.exists() and Path.is_dir() of the source root
RootExists(root) == root # "none"

RootIsDir(root) == root \in {"dir", "locked"}

\* faulty variant: only the identifier file and the source root are checked
validate_paths_no_dest(excel, source, dest) ==
    /\ excel # "none"
    /\ RootExists(source) /\ RootIsDir(source)

\* validate_paths (cli.py 283-304): TRUE when the list of errors is empty
validate_paths(excel, source, dest) ==
    /\ excel # "none"
    /\ RootExists(source) /\ RootIsDir(source)
    /\ dest # "none" /\ dest = "dir"

\* trees of at most one entry below the root
SmallTrees == UNION {TreesOver(S) : S \in {E \in EntrySets : Cardinality(E) <= 1}}

Exit(c, code) == [c EXCEPT !.pc = "exit", !.code = code]

InitCli ==
    /\ \E root \in {"dir", "locked", "file", "none"} :
         \E tree \in (IF root \in {"dir", "locked"} THEN SmallTrees ELSE {<<>>}) :
            sc = [root |-> root, tree |-> tree, pc |-> "start",
                  stack |-> <<>>, folders |-> <<>>, errors |-> 0,
                  raised |-> "no", listed |-> {}]
    /\ \E mode \in {"main", "direct"}, excel \in PathKinds, dest \in PathKinds,
          dry \in BOOLEAN :
          /\ mode = "direct" => (excel = "file" /\ dest = "dir" /\ dry)
          /\ cli = [mode |-> mode, excel |-> excel, dest |-> dest, dry_run |-> dry,
                    pc |-> IF mode = "main" THEN "start" ELSE "direct",
                    code |-> -1, loaded |-> FALSE, scanned |-> FALSE,
                    matched |-> FALSE, moved |-> FALSE, reported |-> FALSE]
    /\ cfg = <<>>
    /\ fs = <<>>
    /\ fs0 = <<>>
    /\ eng = <<>>
    /\ batch = <<>>
    /\ outcomes = <<>>
    /\ calls = 0
    /\ twin = <<>>
    /\ rs = <<>>
    /\ mt = <<>>
    /\ rp = <<>>
    /\ gui = <<>>

\* if not validate_paths(args): return 1 (cli.py 494-496)
CliValidate ==
    /\ cli.pc = "start"
    /\ cli' = IF validate_paths(cli.excel, sc.root, cli.dest)
              THEN [cli EXCEPT !.pc = "load"]
              ELSE Exit(cli, 1)
    /\ UNCHANGED <<cfg, fs, fs0, eng, batch, outcomes, calls, twin, rs, mt, sc, rp, gui>>

\* Step 1 (cli.py 511-521): load_case_ids reads the identifier file, or
\* raises for a file it cannot read as a workbook, which main turns into
\* exit code 1 (cli.py 645-663)
CliLoad ==
    /\ cli.pc = "load"
    /\ \E readable \in (IF cli.excel = "file" THEN BOOLEAN ELSE {FALSE}) :
          cli' = IF readable
                 THEN [cli EXCEPT !.pc = "scan", !.loaded = TRUE]
                 ELSE Exit(cli, 1)
    /\ UNCHANGED <<cfg, fs, fs0, eng, batch, outcomes, calls, twin, rs, mt, sc, rp, gui>>

\* Step 2 (cli.py 523-525): main calls scan_folders(args.source_root)
CliScan ==
    /\ cli.pc = "scan"
    /\ cli' = [cli EXCEPT !.pc = "scanning", !.scanned = TRUE]
    /\ UNCHANGED <<cfg, fs, fs0, eng, batch, outcomes, calls, twin, rs, mt, sc, rp, gui>>

\* the steps of the scan_folders call, made by main or on its own
CliScanStep ==
    /\ cli.pc \in {"scanning", "direct"}
    /\ NextScan

\* scan_folders returned to main, or its exception reached main's handlers
CliScanDone ==
    /\ cli.pc = "scanning"
    /\ sc.pc \in {"returned", "raised"}
    /\ cli' = IF sc.pc = "returned" THEN [cli EXCEPT !.pc = "match"] ELSE Exit(cli, 1)
    /\ UNCHANGED <<cfg, fs, fs0, eng, batch, outcomes, calls, twin, rs, mt, sc, rp, gui>>

\* Step 3 (cli.py 534-561): match_caseids and the list of matches
CliMatch ==
    /\ cli.pc = "match"
    /\ cli' = [cli EXCEPT !.pc = "confirm", !.matched = TRUE]
    /\ UNCHANGED <<cfg, fs, fs0, eng, batch, outcomes, calls, twin, rs, mt, sc, rp, gui>>

\* the confirmation prompt of a live run (cli.py 563-571), then Step 4
\* (cli.py 580-595): FolderMover(...).move_all(all_matches)
CliMove ==
    /\ cli.pc = "confirm"
    /\ \E confirmed \in (IF cli.dry_run THEN {TRUE} ELSE BOOLEAN) :
          cli' = IF confirmed
                 THEN [cli EXCEPT !.pc = "report", !.moved = TRUE]
                 ELSE Exit(cli, 0)
    /\ UNCHANGED <<cfg, fs, fs0, eng, batch, outcomes, calls, twin, rs, mt, sc, rp, gui>>

\* Step 5 and the exit code (cli.py 606-643): 2 when an outcome is an error
CliReport ==
    /\ cli.pc = "report"
    /\ \E errors \in BOOLEAN :
          cli' = [Exit(cli, IF errors THEN 2 ELSE 0) EXCEPT !.reported = TRUE]
    /\ UNCHANGED <<cfg, fs, fs0, eng, batch, outcomes, calls, twin, rs, mt, sc, rp, gui>>

NextCli ==
    \/ CliValidate
    \/ CliLoad
    \/ CliScan
    \/ CliScanStep
    \/ CliScanDone
    \/ CliMatch
    \/ CliMove
    \/ CliReport

SpecCli == InitCli /\ [][NextCli]_vars

\* a path main was given is missing, or a root is not a directory
FatalPrecondition ==
    \/ cli.excel = "none"
    \/ sc.root \in {"none", "file"}
    \/ cli.dest \in {"none", "file"}

\* no step after the validation has run
NothingDone ==
    /\ ~cli.loaded /\ ~cli.scanned /\ ~cli.matched /\ ~cli.moved /\ ~cli.reported
    /\ sc.pc = "start"

\* C25: with the identifier file missing, or the source root or the
\* destination root missing or not a directory, main ends with exit code 1
\* and has not loaded, scanned, matched or moved anything; scan_folders on
\* its own raises FileNotFoundError for a missing root and
\* NotADirectoryError for a root that is not a directory, before it lists
\* any directory.
C25_FatalPreconditionsAbortFirst ==
    /\ (cli.mode = "main" /\ FatalPrecondition) =>
          /\ cli.pc \in {"start", "exit"}
          /\ cli.pc = "exit" => cli.code = 1
          /\ NothingDone
    /\ (cli.mode = "direct" /\ sc.pc # "start" /\ sc.root \in {"none", "file"}) =>
          /\ sc.pc = "raised"
          /\ sc.raised = (IF sc.root = "none" THEN "FileNotFoundError"
                          ELSE "NotADirectoryError")
          /\ sc.listed = {} /\ sc.folders = <<>> /\ sc.errors = 0

\* main ended with code 1 because the destination root is a file, with a
\* readable identifier file and a source root that has a folder in it
C25_Witness ==
    /\ cli.mode = "main"
    /\ cli.pc = "exit"
    /\ cli.code = 1
    /\ cli.excel = "file"
    /\ cli.dest = "file"
    /\ sc.root = "dir"
    /\ \E n \in DOMAIN sc.tree : sc.tree[n] = "dir"
    /\ NothingDone

(***************************************************************************)
(* The report (report.py) and the resume loader (cli.py 35-87).  A row is  *)
(* the record of its fields; the csv module writes a field and reads it    *)
(* back unchanged (newline="", QUOTE_MINIMAL), so a row read is the row    *)
(* written.  What the loader does to a field after reading it (strip) is   *)
(* computed on the characters.                                             *)
(***************************************************************************)
MaxRows == 2         \* most write_move_result calls on one report

MoveStatuses ==
    {"SUCCESS", "SUCCESS_RENAMED", "SKIPPED_MISSING", "SKIPPED_EXISTS",
     "SKIPPED_EXCLUDED", "SKIPPED_RESUME", "SKIPPED_DUPLICATE", "ERROR",
     "DRY_RUN", "DRY_RUN_RENAMED", "QUARANTINED", "QUARANTINED_RENAMED",
     "DRY_RUN_QUARANTINE", "DRY_RUN_QUARANTINE_RENAMED"}

\* ReportStatus.from_move_status (types.py 95-120)
from_move_status(status, is_multiple) ==
    IF is_multiple /\ status \in {"SUCCESS", "SUCCESS_RENAMED", "DRY_RUN", "DRY_RUN_RENAMED"}
    THEN "MULTIPLE_MATCHES"
    ELSE CASE status = "SUCCESS" -> "MOVED"
           [] status = "SUCCESS_RENAMED" -> "MOVED_RENAMED"
           [] status = "SKIPPED_MISSING" -> "SKIPPED_MISSING"
           [] status = "SKIPPED_EXISTS" -> "SKIPPED_EXISTS"
           [] status = "SKIPPED_EXCLUDED" -> "SKIPPED_EXCLUDED"
           [] status = "SKIPPED_RESUME" -> "SKIPPED_RESUME"
           [] status = "SKIPPED_DUPLICATE" -> "SKIPPED_DUPLICATE"
           [] status = "ERROR" -> "ERROR"
           [] status = "DRY_RUN" -> "FOUND_DRYRUN"
           [] status = "DRY_RUN_RENAMED" -> "FOUND_DRYRUN_RENAMED"
           [] status = "QUARANTINED" -> "QUARANTINED"
           [] status = "QUARANTINED_RENAMED" -> "QUARANTINED_RENAMED"
           [] status = "DRY_RUN_QUARANTINE" -> "FOUND_DRYRUN_QUARANTINE"
           [] status = "DRY_RUN_QUARANTINE_RENAMED" -> "FOUND_DRYRUN_QUARANTINE_RENAMED"
           [] OTHER -> "ERROR"

ReportEntry(case_id, status, source_path, dest_path, multiple_note) ==
    [case_id |-> case_id, status |-> status, source_path |-> source_path,
     dest_path |-> dest_path, multiple_note |-> multiple_note]

\* faulty variant: the override applies to the quarantine statuses too
write_move_result_override_all(result, is_multiple_match) ==
    ReportEntry(result.case_id,
                IF is_multiple_match THEN "MULTIPLE_MATCHES"
                ELSE from_move_status(result.status, FALSE),
                result.source_path,
                IF result.dest_path = None THEN <<>> ELSE result.dest_path,
                is_multiple_match)

\* the entry write_move_result builds (report.py 177-223); multiple_note is
\* the "[Multiple matches] " prefix of the message
write_move_result(result, is_multiple_match) ==
    ReportEntry(result.case_id,
                IF result.status \in {"QUARANTINED", "QUARANTINED_RENAMED",
                                      "DRY_RUN_QUARANTINE", "DRY_RUN_QUARANTINE_RENAMED"}
                THEN from_move_status(result.status, FALSE)
                ELSE IF is_multiple_match THEN "MULTIPLE_MATCHES"
                ELSE from_move_status(result.status, FALSE),
                result.source_path,
                IF result.dest_path = None THEN <<>> ELSE result.dest_path,
                is_multiple_match)

\* the rows of write_parameters (report.py 98-135): status PARAMETER, no paths
ParameterRow == ReportEntry(<<>>, "PARAMETER", <<>>, <<>>, FALSE)

\* str.strip() on the characters of the model: blanks off both ends
RECURSIVE StripLeft(_)
StripLeft(s) == IF Len(s) > 0 /\ Head(s) = " " THEN StripLeft(Tail(s)) ELSE s

RECURSIVE StripRight(_)
StripRight(s) ==
    IF Len(s) > 0 /\ s[Len(s)] = " " THEN StripRight(SubSeq(s, 1, Len(s) - 1)) ELSE s

Strip(s) == StripRight(StripLeft(s))

\* MOVED_STATUSES (cli.py 36); the labels the writer writes hold no blank,
\* so row.get("status").strip() is the label written
MOVED_STATUSES == {"MOVED", "MOVED_RENAMED"}

\* load_moved_paths_from_report (cli.py 78-84) over the rows of the report
load_moved_paths_from_report(rows) ==
    {Strip(rows[i].source_path) :
        i \in {k \in 1..Len(rows) :
                 /\ rows[k].status \in MOVED_STATUSES
                 /\ Strip(rows[k].source_path) # <<>>}}

\* source paths of the outcomes reported: one plain, one ending in a blank
ReportPaths == {<<"/", "A">>, <<"/", "B", " ">>}

ReportDest == <<"/", "d">>

\* the outcomes a run can hand to the report
ReportResults ==
    {MoveResult(CidX, p, IF st \in {"SKIPPED_MISSING", "SKIPPED_EXCLUDED",
                                    "SKIPPED_RESUME", "SKIPPED_DUPLICATE"}
                         THEN None ELSE ReportDest, st) :
        p \in ReportPaths, st \in MoveStatuses}

InitReport ==
    /\ rp = [rows |-> <<>>, written |-> <<>>, loaded |-> FALSE, moved_paths |-> {}]
    /\ cfg = <<>>
    /\ fs = <<>>
    /\ fs0 = <<>>
    /\ eng = <<>>
    /\ batch = <<>>
    /\ outcomes = <<>>
    /\ calls = 0
    /\ twin = <<>>
    /\ rs = <<>>
    /\ mt = <<>>
    /\ sc = <<>>
    /\ cli = <<>>
    /\ gui = <<>>

\* writer.write_parameters(run_params), first thing written (cli.py 609)
WriteParameters ==
    /\ ~rp.loaded
    /\ rp.rows = <<>>
    /\ rp' = [rp EXCEPT !.rows = Append(@, ParameterRow)]
    /\ UNCHANGED <<cfg, fs, fs0, eng, batch, outcomes, calls, twin, rs, mt, sc, cli, gui>>

\* writer.write_move_result(result, is_multiple) (cli.py 612-614); written
\* remembers the call and the row it produced
WriteMoveResult ==
    /\ ~rp.loaded
    /\ Len(rp.written) < MaxRows
    /\ \E result \in ReportResults, is_multiple \in BOOLEAN :
          rp' = [rp EXCEPT
                    !.rows = Append(@, write_move_result(result, is_multiple)),
                    !.written = Append(@, [result |-> result,
                                           is_multiple |-> is_multiple,
                                           row |-> Len(rp.rows) + 1])]
    /\ UNCHANGED <<cfg, fs, fs0, eng, batch, outcomes, calls, twin, rs, mt, sc, cli, gui>>

\* a later run loads the finished report (cli.py 574-578)
LoadMovedPaths ==
    /\ ~rp.loaded
    /\ rp' = [rp EXCEPT !.loaded = TRUE,
                        !.moved_paths = load_moved_paths_from_report(rp.rows)]
    /\ UNCHANGED <<cfg, fs, fs0, eng, batch, outcomes, calls, twin, rs, mt, sc, cli, gui>>

NextReport == WriteParameters \/ WriteMoveResult \/ LoadMovedPaths

SpecReport == InitReport /\ [][NextReport]_vars

\* the label of each status when nothing overrides it
FixedLabel(status) ==
    CASE status = "SUCCESS" -> "MOVED"
      [] status = "SUCCESS_RENAMED" -> "MOVED_RENAMED"
      [] status = "DRY_RUN" -> "FOUND_DRYRUN"
      [] status = "DRY_RUN_RENAMED" -> "FOUND_DRYRUN_RENAMED"
      [] status = "DRY_RUN_QUARANTINE" -> "FOUND_DRYRUN_QUARANTINE"
      [] status = "DRY_RUN_QUARANTINE_RENAMED" -> "FOUND_DRYRUN_QUARANTINE_RENAMED"
      [] OTHER -> status

\* C26: write_move_result labels a row with the label of its status when
\* the status is one of the four quarantine statuses, whatever
\* is_multiple_match is; else with MULTIPLE_MATCHES when is_multiple_match
\* holds; else with the fixed label of its status.
C26_ReportLabels ==
    \A i \in 1..Len(rp.written) :
        LET w == rp.written[i]
            label == rp.rows[w.row].status
        IN  /\ w.result.status \in QuarantineStatuses
                => label = FixedLabel(w.result.status)
            /\ (w.result.status \notin QuarantineStatuses /\ w.is_multiple)
                => label = "MULTIPLE_MATCHES"
            /\ (w.result.status \notin QuarantineStatuses /\ ~w.is_multiple)
                => label = FixedLabel(w.result.status)

\* a quarantined outcome of an identifier with several matches kept its
\* label, and a moved outcome of such an identifier was overridden
C26_Witness ==
    /\ Len(rp.written) = 2
    /\ rp.written[1].result.status = "QUARANTINED_RENAMED"
    /\ rp.written[1].is_multiple
    /\ rp.rows[rp.written[1].row].status = "QUARANTINED_RENAMED"
    /\ rp.written[2].result.status = "SUCCESS"
    /\ rp.written[2].is_multiple
    /\ rp.rows[rp.written[2].row].status = "MULTIPLE_MATCHES"

\* the source paths the run that wrote the report relocated successfully
RelocatedPaths ==
    {rp.written[i].result.source_path :
        i \in {k \in 1..Len(rp.written) :
                 rp.written[k].result.status \in {"SUCCESS", "SUCCESS_RENAMED"}}}

\* C27: for a report written through write_move_result,
\* load_moved_paths_from_report returns exactly the source paths of the
\* outcomes with status SUCCESS or SUCCESS_RENAMED.
C27_ResumeRoundTrip ==
    rp.loaded => rp.moved_paths = RelocatedPaths

(***************************************************************************)
(* A batch during which the user asks for a stop.  The program has no      *)
(* control that takes the request: FolderMoverGUI.operation_cancelled      *)
(* (gui.py 58) is set to False when an operation starts (gui.py 361) and   *)
(* nothing else writes or reads it, and move_all takes no stop signal.     *)
(* stop_requested records that the user asked, stop_at how many outcomes   *)
(* there were at that moment.                                              *)
(***************************************************************************)
InitCancel ==
    /\ cfg \in {c \in Configs : /\ c.max_moves = None
                                /\ c.exclude_patterns = <<>>
                                /\ c.already_moved_paths = {}
                                /\ c.on_dest_exists = "rename"}
    /\ fs \in InitialFs
    /\ fs0 = fs
    /\ eng = NewEngine(cfg)
    /\ batch = Idle
    /\ outcomes = <<>>
    /\ calls = 0
    /\ twin = <<>>
    /\ rs = <<>>
    /\ mt = <<>>
    /\ sc = <<>>
    /\ cli = <<>>
    /\ rp = <<>>
    /\ gui = [operation_cancelled |-> FALSE, stop_requested |-> FALSE, stop_at |-> 0]

\* the user asks for a stop while move_all is in its loop
RequestStop ==
    /\ batch.pc = "loop"
    /\ ~gui.stop_requested
    /\ gui' = [gui EXCEPT !.stop_requested = TRUE, !.stop_at = Len(batch.results)]
    /\ UNCHANGED <<cfg, fs, fs0, eng, batch, outcomes, calls, twin, rs, mt, sc, cli, rp>>

NextCancel == MoveAllBegin \/ MoveAllIter \/ RequestStop

SpecCancel == InitCancel /\ [][NextCancel]_vars

\* C28: after the user has asked for a stop, the match in flight is
\* completed and no later match is processed: at most one more outcome is
\* added to those there were when the user asked.
C28_StopEndsBatch ==
    gui.stop_requested => Len(batch.results) <= gui.stop_at + 1

(***************************************************************************)
(* FolderMoverGUI (gui.py): the Tk main thread runs one handler at a time  *)
(* (button commands, variable traces, timer callbacks); worker threads run *)
(* _worker_run beside it and end on their own.  A thread is its number;    *)
(* alive is the set of threads for which is_alive() holds.  The dialog of  *)
(* _run_operation runs the event loop while it is open: handlers run       *)
(* between the question and the answer, and the model lets the Preview     *)
(* button be pressed there too, relying on no input grab.                  *)
(***************************************************************************)
MaxRuns == 2         \* operations the user starts in one session

NoThread == 0

\* is_running (gui.py 306, 353): worker_thread is not None and is alive
IsRunning(g) == g.worker_thread # NoThread /\ g.worker_thread \in g.alive

\* _validate_inputs (gui.py 300-313), after the path fields were looked at
ValidateInputs(g) ==
    [g EXCEPT !.buttons = IF g.inputs_ok /\ ~IsRunning(g) THEN "normal" ELSE "disabled"]

\* _monitor_worker (gui.py 395-402) run once; gone is TRUE when the worker
\* has ended by then
MonitorWorker(g, gone) ==
    IF gone THEN ValidateInputs(g) ELSE [g EXCEPT !.monitors = @ + 1]

\* the thread _start_operation creates and starts (gui.py 384-390); quick
\* is TRUE when it has ended before _monitor_worker looks at it
Started(g, quick) ==
    LET t == g.started + 1
    IN  MonitorWorker([g EXCEPT !.buttons = "disabled",
                                !.operation_cancelled = FALSE,
                                !.worker_thread = t,
                                !.started = t,
                                !.alive = IF quick THEN @ ELSE @ \cup {t}],
                      quick)

\* faulty variant: no look at the previous worker
start_operation_unguarded(g, quick) == Started(g, quick)

\* _start_operation (gui.py 351-393)
start_operation(g, quick) ==
    IF IsRunning(g)
    THEN [g EXCEPT !.busy = @ + 1]
    ELSE Started(g, quick)

InitGui ==
    /\ gui = [worker_thread |-> NoThread, alive |-> {}, started |-> 0,
              buttons |-> "normal", inputs_ok |-> FALSE, dry_run |-> TRUE,
              confirming |-> FALSE, monitors |-> 0, busy |-> 0,
              operation_cancelled |-> FALSE]
    /\ cfg = <<>>
    /\ fs = <<>>
    /\ fs0 = <<>>
    /\ eng = <<>>
    /\ batch = <<>>
    /\ outcomes = <<>>
    /\ calls = 0
    /\ twin = <<>>
    /\ rs = <<>>
    /\ mt = <<>>
    /\ sc = <<>>
    /\ cli = <<>>
    /\ rp = <<>>

\* the user edits a path field: the trace runs _validate_inputs (gui.py 76-78)
EditPath ==
    /\ \E ok \in BOOLEAN : gui' = ValidateInputs([gui EXCEPT !.inputs_ok = ok])
    /\ UNCHANGED <<cfg, fs, fs0, eng, batch, outcomes, calls, twin, rs, mt, sc, cli, rp>>

\* the user ticks or unticks the dry-run box
ToggleDryRun ==
    /\ gui' = [gui EXCEPT !.dry_run = ~@]
    /\ UNCHANGED <<cfg, fs, fs0, eng, batch, outcomes, calls, twin, rs, mt, sc, cli, rp>>

\* the Preview button: _run_preview (gui.py 323-327)
PressPreview ==
    /\ gui.buttons = "normal"
    /\ gui.started < MaxRuns
    /\ \E quick \in BOOLEAN :
          gui' = start_operation([gui EXCEPT !.dry_run = TRUE], quick)
    /\ UNCHANGED <<cfg, fs, fs0, eng, batch, outcomes, calls, twin, rs, mt, sc, cli, rp>>

\* the Run button: _run_operation (gui.py 329-349) up to the dialog of a
\* live run, or all of it for a dry run
PressRun ==
    /\ gui.buttons = "normal"
    /\ ~gui.confirming
    /\ gui.started < MaxRuns
    /\ \E quick \in BOOLEAN :
          gui' = IF gui.dry_run
                 THEN start_operation(gui, quick)
                 ELSE [gui EXCEPT !.confirming = TRUE]
    /\ UNCHANGED <<cfg, fs, fs0, eng, batch, outcomes, calls, twin, rs, mt, sc, cli, rp>>

\* the user answers the dialog: _run_operation goes on (gui.py 345-349)
AnswerConfirm ==
    /\ gui.confirming
    /\ \E yes \in BOOLEAN, quick \in BOOLEAN :
          gui' = IF yes
                 THEN start_operation([gui EXCEPT !.confirming = FALSE], quick)
                 ELSE [gui EXCEPT !.confirming = FALSE]
    /\ UNCHANGED <<cfg, fs, fs0, eng, batch, outcomes, calls, twin, rs, mt, sc, cli, rp>>

\* a timer set by root.after(200, self._monitor_worker) fires
MonitorTick ==
    /\ gui.monitors > 0
    /\ gui' = MonitorWorker([gui EXCEPT !.monitors = @ - 1], ~IsRunning(gui))
    /\ UNCHANGED <<cfg, fs, fs0, eng, batch, outcomes, calls, twin, rs, mt, sc, cli, rp>>

\* a worker thread comes to the end of _worker_run (gui.py 404-412)
WorkerEnds ==
    /\ \E t \in gui.alive : gui' = [gui EXCEPT !.alive = @ \ {t}]
    /\ UNCHANGED <<cfg, fs, fs0, eng, batch, outcomes, calls, twin, rs, mt, sc, cli, rp>>

NextGui ==
    \/ EditPath
    \/ ToggleDryRun
    \/ PressPreview
    \/ PressRun
    \/ AnswerConfirm
    \/ MonitorTick
    \/ WorkerEnds

SpecGui == InitGui /\ [][NextGui]_vars

\* C29: in every interleaving of button presses, timer callbacks and worker
\* completion at most one worker thread is alive, and the thread the GUI
\* holds is the one alive: no worker was started while another was alive.
C29_OneWorkerAtATime ==
    /\ Cardinality(gui.alive) <= 1
    /\ gui.alive \subseteq {gui.worker_thread}

\* _start_operation was reached while the worker was alive and started
\* nothing: one thread started, still alive, one Busy warning
C29_Witness ==
    /\ gui.started = 1
    /\ gui.alive = {1}
    /\ gui.busy = 1

(***************************************************************************)
(* The move primitive called on its own: move_folder(src, dest, dry_run)   *)
(* over sources that are a folder, a file, missing or inside the           *)
(* destination root, and destinations that exist or not, directly in the   *)
(* destination root or below directories still to be created.              *)
(***************************************************************************)
MaxPrimCalls == 2    \* successive calls of the primitive

PrimSources == {SourcePath("s1"), RawPath("s1"), SourcePath("s3"), SourcePath("sd")}

PrimDests == {<<NameA>>, <<NameT>>, <<DUPLICATES_FOLDER, CidX, NameA>>}

InitPrim ==
    /\ fs \in InitialFs
    /\ fs0 = fs
    /\ cfg = <<>>
    /\ eng = <<>>
    /\ batch = <<>>
    /\ outcomes = <<>>
    /\ calls = 0
    /\ twin = <<>>
    /\ rs = <<>>
    /\ mt = <<>>
    /\ sc = <<>>
    /\ cli = <<>>
    /\ rp = <<>>
    /\ gui = <<>>

\* move_folder(src_path, dest_path, dry_run) is called
PrimCallWith(src_path, dest_path, dry_run, io) ==
    /\ calls < MaxPrimCalls
    /\ \E r \in {move_folder(fs, src_path, dest_path, dry_run, io)} :
          /\ fs' = r.fs
          /\ outcomes' = Append(outcomes, r.result)
    /\ calls' = calls + 1
    /\ UNCHANGED <<cfg, fs0, eng, batch, twin, rs, mt, sc, cli, rp, gui>>

PrimCall ==
    \E src_path \in PrimSources, dest_path \in PrimDests, dry_run \in BOOLEAN, io \in IO :
        PrimCallWith(src_path, dest_path, dry_run, io)

NextPrim == PrimCall

SpecPrim == InitPrim /\ [][NextPrim]_vars

\* what a call of the primitive owes, given the filesystem before and after
PrimContract(src_path, dest_path, dry_run, io) ==
    LET src    == normalize_path(src_path)
        result == outcomes'[Len(outcomes')]
    IN  /\ ~SourceExists(fs, src) =>
              result.status = "SKIPPED_MISSING" /\ fs' = fs
        /\ (SourceExists(fs, src) /\ SourceIsDir(fs, src) /\ PathExists(fs, dest_path)) =>
              /\ result.status = "SKIPPED_EXISTS"
              /\ fs' = fs
              /\ SourceExists(fs', src)
        /\ PathExists(fs, dest_path) => fs' = fs
        /\ result.status = "SUCCESS" <=>
              /\ SourceExists(fs, src) /\ SourceIsDir(fs, src)
              /\ ~PathExists(fs, dest_path)
              /\ ~dry_run /\ io = "ok"
        /\ result.status = "SUCCESS" =>
              ~SourceExists(fs', src) /\ PathExists(fs', dest_path)
        /\ result.status # "SUCCESS" =>
              /\ fs'.src = fs.src
              /\ fs.dest \subseteq fs'.dest
              /\ dest_path \in fs'.dest => dest_path \in fs.dest

\* C30: the primitive move_folder(src, dest) re-checks both paths when it
\* is called: a missing source gives SKIPPED_MISSING, an existing
\* destination gives SKIPPED_EXISTS with the source left in place and the
\* filesystem untouched; it moves only in a live call with the source an
\* existing directory and the destination absent, after which the source is
\* gone, the destination exists and the status is SUCCESS.
C30_PrimitiveNeverOverwrites ==
    [][\A src_path \in PrimSources, dest_path \in PrimDests,
          dry_run \in BOOLEAN, io \in IO :
            PrimCallWith(src_path, dest_path, dry_run, io)
                => PrimContract(src_path, dest_path, dry_run, io)]_vars

\* a call on an existing destination was skipped with nothing changed, then
\* a live call on a free destination moved the same source
C30_Witness ==
    /\ Len(outcomes) = 2
    /\ outcomes[1].status = "SKIPPED_EXISTS"
    /\ outcomes[1].source_path = SourcePath("s1")
    /\ outcomes[2].status = "SUCCESS"
    /\ outcomes[2].source_path = SourcePath("s1")
    /\ outcomes[2].dest_path = <<NameT>>
    /\ fs.src["s1"] = "absent"
    /\ <<NameT>> \in fs.dest
    /\ fs.dest \ {<<NameT>>} = fs0.dest

(***************************************************************************)
(* Session state between resets (mover.py 370-387, 773-777).               *)
(***************************************************************************)
\* the session state b holds everything the session state a holds
Accumulated(a, b) ==
    /\ a.claimed_names \subseteq b.claimed_names
    /\ DOMAIN a.quarantine_claimed \subseteq DOMAIN b.quarantine_claimed
    /\ \A k \in DOMAIN a.quarantine_claimed :
          a.quarantine_claimed[k] \subseteq b.quarantine_claimed[k]
    /\ \A st \in MoveStatus : a.stats[st] <= b.stats[st]

\* C31 (checked under SpecStats): between resets the claimed-name sets (main
\* and per identifier) and the counters never shrink; a step of reset_stats
\* leaves all counters zero and all claimed-name sets empty, and the engine
\* then is in the state of a newly constructed engine with the same
\* configuration, so every move_folder call on it gives what it gives on a
\* new engine.
C31_ResetRestoresNewEngine ==
    [][/\ ~ResetStats => Accumulated(eng, eng')
       /\ ResetStats =>
            /\ \A st \in MoveStatus : eng'.stats[st] = 0
            /\ eng'.claimed_names = {}
            /\ \A k \in DOMAIN eng'.quarantine_claimed :
                  eng'.quarantine_claimed[k] = {}
            /\ eng' = NewEngine(cfg)
            /\ \A m \in MatchSet, io \in IO :
                  FolderMover_move_folder(cfg, eng', fs', m, io)
                      = FolderMover_move_folder(cfg, NewEngine(cfg), fs', m, io)]_vars

\* reset_stats was called after a live session that quarantined a folder
\* (the destination was empty at the start) and moved another one to the
\* main destination; nothing is claimed or counted now
C31_Witness ==
    /\ calls >= 2
    /\ outcomes = <<>>
    /\ batch = Idle
    /\ fs0.dest = {}
    /\ <<DUPLICATES_FOLDER, CidX, NameA>> \in fs.dest
    /\ <<NameA>> \in fs.dest
    /\ eng = NewEngine(cfg)

(***************************************************************************)
(* ReportWriter as an object (report.py 32-262): one writer, its file and  *)
(* its row counter.  rp.file_open is "self._file is not None"; rp.lines    *)
(* are the rows of the report file, the header row included, as a reader   *)
(* of the closed or flushed file gets them.                                *)
(***************************************************************************)
MaxWrites == 3       \* most write calls on one writer

\* REPORT_COLUMNS, the header row
HeaderRow == ReportEntry(<<>>, "HEADER", <<>>, <<>>, FALSE)

\* ReportWriter.__init__ (report.py 40-59); nothing is on disk yet
NewWriter(include_header) ==
    [include_header |-> include_header, file_open |-> FALSE, started |-> FALSE,
     lines |-> <<>>, row_count |-> 0]

\* ReportWriter.open (report.py 72-87): mode "w" creates or truncates
Writer_open(w) ==
    IF w.file_open THEN w
    ELSE [w EXCEPT !.file_open = TRUE,
                   !.lines = IF w.include_header THEN <<HeaderRow>> ELSE <<>>,
                   !.started = TRUE]

\* ReportWriter.close (report.py 89-97)
Writer_close(w) ==
    IF w.file_open THEN [w EXCEPT !.file_open = FALSE] ELSE w

\* ReportWriter._ensure_open (report.py 139-142)
Writer_ensure_open(w) == IF ~w.file_open THEN Writer_open(w) ELSE w

\* ReportWriter.write_entry (report.py 152-175)
Writer_write_entry(w, entry) ==
    LET o == Writer_ensure_open(w)
    IN  [o EXCEPT !.lines = Append(@, entry), !.row_count = @ + 1]

\* ReportWriter.write_parameters (report.py 98-137) with n non-empty values:
\* n parameter rows and the separator row
Writer_write_parameters(w, n) ==
    LET o == Writer_ensure_open(w)
    IN  [o EXCEPT !.lines = @ \o [i \in 1..(n + 1) |-> ParameterRow],
                  !.row_count = @ + n + 1]

\* the entry of write_not_found (report.py 225-245)
NotFoundEntry(case_id) == ReportEntry(case_id, "NOT_FOUND", <<>>, <<>>, FALSE)

\* the entry of write_error (report.py 247-273)
ErrorEntry(case_id, source_path) == ReportEntry(case_id, "ERROR", source_path, <<>>, FALSE)

InitWriter ==
    /\ rp \in {NewWriter(h) : h \in BOOLEAN}
    /\ calls = 0
    /\ cfg = <<>>
    /\ fs = <<>>
    /\ fs0 = <<>>
    /\ eng = <<>>
    /\ batch = <<>>
    /\ outcomes = <<>>
    /\ twin = <<>>
    /\ rs = <<>>
    /\ mt = <<>>
    /\ sc = <<>>
    /\ cli = <<>>
    /\ gui = <<>>

\* writer.open()
WriterOpen ==
    /\ rp' = Writer_open(rp)
    /\ UNCHANGED <<cfg, fs, fs0, eng, batch, outcomes, calls, twin, rs, mt, sc, cli, gui>>

\* writer.close()
WriterClose ==
    /\ rp' = Writer_close(rp)
    /\ UNCHANGED <<cfg, fs, fs0, eng, batch, outcomes, calls, twin, rs, mt, sc, cli, gui>>

\* writer.write_parameters(params)
WriterWriteParameters ==
    /\ calls < MaxWrites
    /\ \E n \in 0..1 : rp' = Writer_write_parameters(rp, n)
    /\ calls' = calls + 1
    /\ UNCHANGED <<cfg, fs, fs0, eng, batch, outcomes, twin, rs, mt, sc, cli, gui>>

\* writer.write_move_result(result, is_multiple_match)
WriterWriteMoveResult ==
    /\ calls < MaxWrites
    /\ \E result \in {r \in ReportResults : r.source_path = <<"/", "A">>
                                             /\ r.status \in {"SUCCESS", "SKIPPED_MISSING"}},
          is_multiple \in BOOLEAN :
          rp' = Writer_write_entry(rp, write_move_result(result, is_multiple))
    /\ calls' = calls + 1
    /\ UNCHANGED <<cfg, fs, fs0, eng, batch, outcomes, twin, rs, mt, sc, cli, gui>>

\* writer.write_not_found(case_id)
WriterWriteNotFound ==
    /\ calls < MaxWrites
    /\ rp' = Writer_write_entry(rp, NotFoundEntry(CidX))
    /\ calls' = calls + 1
    /\ UNCHANGED <<cfg, fs, fs0, eng, batch, outcomes, twin, rs, mt, sc, cli, gui>>

\* writer.write_error(case_id, error, source_path)
WriterWriteError ==
    /\ calls < MaxWrites
    /\ rp' = Writer_write_entry(rp, ErrorEntry(CidX, <<"/", "A">>))
    /\ calls' = calls + 1
    /\ UNCHANGED <<cfg, fs, fs0, eng, batch, outcomes, twin, rs, mt, sc, cli, gui>>

NextWriter ==
    \/ WriterOpen
    \/ WriterClose
    \/ WriterWriteParameters
    \/ WriterWriteMoveResult
    \/ WriterWriteNotFound
    \/ WriterWriteError

SpecWriter == InitWriter /\ [][NextWriter]_vars

\* the rows of the report file, header excluded
FileRows == Cardinality({i \in 1..Len(rp.lines) : rp.lines[i] # HeaderRow})

\* C32 (checked under SpecWriter): after any sequence of open,
\* write_parameters, write_move_result, write_not_found, write_error and
\* close calls on one writer, a write after close included, get_row_count()
\* is the number of rows of the report file, the header excluded.
C32_RowCountIsFileRows == rp.row_count = FileRows

(***************************************************************************)
(* Batches in which one folder is matched more than once: by two           *)
(* identifiers (s1, sd), or as a folder inside a matched folder (sn inside *)
(* s1).  Live engines without exclusion patterns and without a resume set. *)
(***************************************************************************)
OnceSources == Sources \cup {"sn"}

OnceMatchSet ==
    {FolderMatch(CidX, "s1"), FolderMatch(CidY, "s1"), FolderMatch(CidY, "sn"),
     FolderMatch(CidX, "sd"), FolderMatch(CidY, "sd")}

\* one Match per (identifier, folder) pair (cli.py 553-561)
OnceMatchLists ==
    {ms \in UNION {[1..n -> OnceMatchSet] : n \in 0..MaxMatches} :
        \A i, j \in 1..Len(ms) : ms[i] = ms[j] => i = j}

InitOnce ==
    /\ cfg \in {c \in Configs : /\ ~c.dry_run
                                /\ c.max_moves \in {None, <<1>>, <<2>>}
                                /\ c.exclude_patterns = <<>>
                                /\ c.already_moved_paths = {}}
    /\ fs \in {[src |-> [id \in OnceSources |-> "dir"], dest |-> d, fill |-> 0] :
                   d \in {{}, {<<NameA>>}}}
    /\ fs0 = fs
    /\ eng = NewEngine(cfg)
    /\ batch = Idle
    /\ outcomes = <<>>
    /\ calls = 0
    /\ twin = <<>>
    /\ rs = <<>>
    /\ mt = <<>>
    /\ sc = <<>>
    /\ cli = <<>>
    /\ rp = <<>>
    /\ gui = <<>>

\* move_all(matches) is called
OnceBegin ==
    /\ batch.pc = "idle"
    /\ outcomes = <<>>
    /\ \E ms \in OnceMatchLists : batch' = BeginBatch(cfg, ms)
    /\ UNCHANGED <<cfg, fs, fs0, eng, outcomes, calls, twin, rs, mt, sc, cli, rp, gui>>

NextOnce == OnceBegin \/ MoveAllIter

SpecOnce == InitOnce /\ [][NextOnce]_vars

\* the match at position i of the batch got a success or quarantine status,
\* and its source is the source of match m or a folder that holds it
RelocatedEarlier(i, m) ==
    /\ batch.results[i].status \in LiveStatuses
    /\ \/ batch.matches[i].source_path = m.source_path
       \/ batch.matches[i].source_path.id \in InsideOf(m.source_path.id)

\* C33 (checked under SpecOnce): in a live batch, a match whose source path
\* was the source of an earlier match with a success or quarantine status,
\* or lies inside the source of such a match, gets SKIPPED_MISSING, uses no
\* budget and leaves the filesystem as it is.
C33_RelocatedAtMostOnce ==
    [][(/\ batch.pc = "loop"
        /\ Len(batch'.results) = Len(batch.results) + 1
        /\ \E i \in 1..Len(batch.results) : RelocatedEarlier(i, batch.matches[batch.i]))
       => /\ batch'.results[Len(batch'.results)].status = "SKIPPED_MISSING"
          /\ batch'.ops_count = batch.ops_count
          /\ fs' = fs]_vars

\* the same, for the sources outside dest_root (used to locate the failure)
C33_OutsideDestRoot ==
    [][(/\ batch.pc = "loop"
        /\ ~InDestRoot(batch.matches[batch.i].source_path.id)
        /\ Len(batch'.results) = Len(batch.results) + 1
        /\ \E i \in 1..Len(batch.results) : RelocatedEarlier(i, batch.matches[batch.i]))
       => /\ batch'.results[Len(batch'.results)].status = "SKIPPED_MISSING"
          /\ batch'.ops_count = batch.ops_count
          /\ fs' = fs]_vars

(***************************************************************************)
(* Frame of the skip outcomes of FolderMover.move_folder (mover.py         *)
(* 443-522), checked under Spec.                                           *)
(***************************************************************************)
EngineSkips ==
    {"SKIPPED_EXCLUDED", "SKIPPED_RESUME", "SKIPPED_MISSING", "SKIPPED_DUPLICATE",
     "SKIPPED_EXISTS"}

\* C34: when FolderMover.move_folder returns SKIPPED_EXCLUDED,
\* SKIPPED_RESUME, SKIPPED_MISSING, SKIPPED_DUPLICATE, or SKIPPED_EXISTS
\* under on_dest_exists=skip, the filesystem, the main claimed-name set and
\* every quarantine claimed-name set are unchanged, and the counter of the
\* returned status, and no other, is incremented by one.
C34_SkipsOnlyCount ==
    [][(/\ Len(outcomes') = Len(outcomes) + 1
        /\ outcomes'[Len(outcomes')].status \in EngineSkips
        /\ outcomes'[Len(outcomes')].status = "SKIPPED_EXISTS"
              => cfg.on_dest_exists = "skip")
       => LET st == outcomes'[Len(outcomes')].status
          IN  /\ fs' = fs
              /\ eng'.claimed_names = eng.claimed_names
              /\ eng'.quarantine_claimed = eng.quarantine_claimed
              /\ eng'.stats = [eng.stats EXCEPT ![st] = @ + 1]]_vars

\* a session that moved a folder and claimed its name has then returned a
\* SKIPPED_MISSING and, under on_dest_exists=skip, a SKIPPED_EXISTS
C34_Witness ==
    /\ Len(outcomes) = 3
    /\ cfg.on_dest_exists = "skip"
    /\ outcomes[1].status = "SUCCESS"
    /\ outcomes[2].status = "SKIPPED_MISSING"
    /\ outcomes[3].status = "SKIPPED_EXISTS"
    /\ eng.claimed_names = {NameA}
    /\ eng.stats["SKIPPED_MISSING"] = 1
    /\ eng.stats["SKIPPED_EXISTS"] = 1

(***************************************************************************)
(* Claimed names after a failed move (mover.py 408-420, 525-562), checked  *)
(* under Spec.                                                             *)
(***************************************************************************)
\* the match is handled by the quarantine branch
QuarantineBranch(f, m) ==
    PassesChecks(f, m) /\ IsDuplicateId(m) /\ cfg.duplicates_action = "quarantine"

\* the names claimed for identifier cid in session e
QuarantineClaimed(e, cid) ==
    IF cid \in DOMAIN e.quarantine_claimed THEN e.quarantine_claimed[cid] ELSE {}

\* an earlier main-branch move to dest_root/name ended in ERROR
FailedInMain(name) ==
    \E i \in 1..Len(outcomes) :
        /\ outcomes[i].status = "ERROR"
        /\ outcomes[i].dest_path = <<name>>

\* an earlier quarantine move of identifier cid to name ended in ERROR
FailedInQuarantine(cid, name) ==
    \E i \in 1..Len(outcomes) :
        /\ outcomes[i].status = "ERROR"
        /\ outcomes[i].dest_path = <<DUPLICATES_FOLDER, cid, name>>

\* statuses of a move under the original folder name
UnsuffixedStatuses == {"SUCCESS", "DRY_RUN", "QUARANTINED", "DRY_RUN_QUARANTINE"}

\* C35: a name claimed by a main-branch or quarantine-branch match stays
\* claimed when the move ends in ERROR: the claimed sets only grow, an ERROR
\* outcome of either branch leaves one more name claimed, and a later match
\* with the folder name of a failed move is renamed to a suffixed name (or,
\* in the main branch under on_dest_exists=skip, reported SKIPPED_EXISTS)
\* also when the original name is free on disk.
C35_ClaimNeverReleased ==
    [][Len(outcomes') = Len(outcomes) + 1 =>
        LET res == outcomes'[Len(outcomes')]
            m == MatchOf(res)
            name == m.folder_name
            cid == m.case_id
        IN  /\ eng.claimed_names \subseteq eng'.claimed_names
            /\ \A k \in DOMAIN eng.quarantine_claimed :
                  QuarantineClaimed(eng, k) \subseteq QuarantineClaimed(eng', k)
            /\ (res.status = "ERROR" /\ MainBranch(fs, m)) =>
                  \E n \in eng'.claimed_names :
                      /\ n \notin eng.claimed_names
                      /\ ~PathExists(fs', <<n>>)
            /\ (res.status = "ERROR" /\ QuarantineBranch(fs, m)) =>
                  \E n \in QuarantineClaimed(eng', cid) :
                      /\ n \notin QuarantineClaimed(eng, cid)
                      /\ ~PathExists(fs', <<DUPLICATES_FOLDER, cid, n>>)
            /\ (MainBranch(fs, m) /\ FailedInMain(name)) =>
                  /\ name \in eng.claimed_names
                  /\ IF cfg.on_dest_exists = "skip"
                     THEN res.status = "SKIPPED_EXISTS"
                     ELSE /\ res.status \notin UnsuffixedStatuses
                          /\ res.dest_path # None => res.dest_path # <<name>>
            /\ (QuarantineBranch(fs, m) /\ FailedInQuarantine(cid, name)) =>
                  /\ name \in QuarantineClaimed(eng, cid)
                  /\ res.status \notin UnsuffixedStatuses
                  /\ res.dest_path # None =>
                        res.dest_path # <<DUPLICATES_FOLDER, cid, name>>]_vars

\* the move of a folder A to the free name A failed; a second folder named A
\* was then moved to A_1 although dest_root holds no A
C35_Witness ==
    /\ Len(outcomes) = 2
    /\ outcomes[1].status = "ERROR"
    /\ outcomes[1].dest_path = <<NameA>>
    /\ outcomes[2].status = "SUCCESS_RENAMED"
    /\ outcomes[2].dest_path = <<Suffixed(NameA, 1)>>
    /\ ~PathExists(fs, <<NameA>>)
    /\ NameA \in eng.claimed_names

(***************************************************************************)
(* move_all under every kind of budget (mover.py 659-676): none, negative, *)
(* zero, positive.  Engines without exclusion patterns and resume set.     *)
(***************************************************************************)
BudgetConfigs ==
    [dry_run : BOOLEAN,
     max_moves : {None, <<-1>>, <<0>>, <<1>>, <<2>>},
     exclude_patterns : {<<>>},
     on_dest_exists : {"rename", "skip"},
     already_moved_paths : {{}},
     duplicates_action : {"quarantine", "skip", "move-all"},
     duplicate_case_ids : {{CidX}}]

InitBudget ==
    /\ cfg \in BudgetConfigs
    /\ fs \in InitialFs
    /\ fs0 = fs
    /\ eng = NewEngine(cfg)
    /\ batch = Idle
    /\ outcomes = <<>>
    /\ calls = 0
    /\ twin = <<>>
    /\ rs = <<>>
    /\ mt = <<>>
    /\ sc = <<>>
    /\ cli = <<>>
    /\ rp = <<>>
    /\ gui = <<>>

NextBudget == MoveAllBegin \/ MoveAllIter

SpecBudget == InitBudget /\ [][NextBudget]_vars

\* max(max_moves, 0)
BudgetOf(c) == IF c.max_moves[1] > 0 THEN c.max_moves[1] ELSE 0

\* C36 (checked under SpecBudget): when move_all returns fewer outcomes than
\* there are matches, max_moves is set, the number of outcomes with an
\* operation status is max(max_moves, 0), and for max_moves >= 1 the last
\* outcome has an operation status (nothing after the operation that filled
\* the budget is recorded); with max_moves <= 0 the list returned is empty
\* and neither the filesystem nor the session state has changed.
C36_EarlyStopShape ==
    batch.pc = "returned" =>
        /\ Len(batch.results) < Len(batch.matches) =>
              /\ cfg.max_moves # None
              /\ OpCount(batch.results) = BudgetOf(cfg)
              /\ cfg.max_moves[1] >= 1 =>
                    /\ Len(batch.results) >= 1
                    /\ batch.results[Len(batch.results)].status \in OP_STATUSES
        /\ (cfg.max_moves # None /\ cfg.max_moves[1] <= 0) =>
              /\ batch.results = <<>>
              /\ fs = fs0
              /\ eng = NewEngine(cfg)

\* budget 2, three matches: two operations filled the budget and the third
\* match was left
C36_Witness ==
    /\ batch.pc = "returned"
    /\ cfg.max_moves = <<2>>
    /\ Len(batch.matches) = 3
    /\ Len(batch.results) = 2
    /\ batch.results[1].status \in OP_STATUSES
    /\ batch.results[2].status \in OP_STATUSES

\* C37 (checked under SpecReport): for every MoveStatus and both values of
\* the multiple-match flag, the label of the row that write_move_result
\* writes is ReportStatus.from_move_status(status, is_multiple).value.
C37_LabelConversionsAgree ==
    \A i \in 1..Len(rp.written) :
        rp.rows[rp.written[i].row].status
            = from_move_status(rp.written[i].result.status, rp.written[i].is_multiple)

(***************************************************************************)
(* The two front ends side by side: main (cli.py 534-593) and              *)
(* FolderMoverGUI._execute_operation (gui.py 436-473) build the match list *)
(* and the engine from the same matcher result and the same options, each  *)
(* engine on its own copy of the filesystem.  cfg, eng, fs, batch belong   *)
(* to the engine of the CLI, twin to the engine of the GUI.  The matcher   *)
(* result is the sequence of its items in dictionary order.                *)
(***************************************************************************)
\* matcher results: X matches no folder, one folder or two; so does Y
MatcherResults ==
    {<< [case_id |-> CidX, folders |-> fx], [case_id |-> CidY, folders |-> fy] >> :
        fx \in {<<>>, <<"s1">>, <<"s1", "s2">>},
        fy \in {<<>>, <<"s3">>, <<"s1", "s2">>}}

\* match_counts (cli.py 544, gui.py 440)
match_counts(matches_by_caseid) ==
    [i \in 1..Len(matches_by_caseid) |-> Len(matches_by_caseid[i].folders)]

\* all_matches (cli.py 553-561, gui.py 447-455)
RECURSIVE all_matches(_)
all_matches(matches_by_caseid) ==
    IF matches_by_caseid = <<>> THEN <<>>
    ELSE LET item == Head(matches_by_caseid)
         IN  [j \in 1..Len(item.folders) |-> FolderMatch(item.case_id, item.folders[j])]
             \o all_matches(Tail(matches_by_caseid))

\* duplicate_case_ids (gui.py 457-458)
duplicate_case_ids(matches_by_caseid) ==
    {matches_by_caseid[i].case_id :
        i \in {k \in 1..Len(matches_by_caseid) : match_counts(matches_by_caseid)[k] > 1}}

\* the options both front ends take; the GUI has no exclusion patterns and
\* no resume report, the CLI no duplicates option
FrontOptions ==
    [dry_run : BOOLEAN, max_moves : {None, <<1>>}, on_dest_exists : {"rename", "skip"}]

\* FolderMover(...) as main constructs it (cli.py 584-591): no
\* duplicates_action and no duplicate_case_ids argument, so the defaults of
\* __init__ apply (mover.py 340-341, 367-368)
cli_mover(opts, matches_by_caseid) ==
    [dry_run |-> opts.dry_run,
     max_moves |-> opts.max_moves,
     exclude_patterns |-> <<>>,
     on_dest_exists |-> opts.on_dest_exists,
     already_moved_paths |-> {},
     duplicates_action |-> "quarantine",
     duplicate_case_ids |-> {}]

\* FolderMover(...) as _execute_operation constructs it (gui.py 464-471),
\* with the default of the duplicates control (gui.py 69)
gui_mover(opts, matches_by_caseid) ==
    [dry_run |-> opts.dry_run,
     max_moves |-> opts.max_moves,
     exclude_patterns |-> <<>>,
     on_dest_exists |-> opts.on_dest_exists,
     already_moved_paths |-> {},
     duplicates_action |-> "quarantine",
     duplicate_case_ids |-> duplicate_case_ids(matches_by_caseid)]

InitFront ==
    /\ cli \in [matches_by_caseid : MatcherResults, opts : FrontOptions]
    /\ cfg = cli_mover(cli.opts, cli.matches_by_caseid)
    /\ fs \in InitialFs
    /\ fs0 = fs
    /\ eng = NewEngine(cfg)
    /\ batch = Idle
    /\ outcomes = <<>>
    /\ calls = 0
    /\ twin = [cfg |-> gui_mover(cli.opts, cli.matches_by_caseid), fs |-> fs,
               eng |-> NewEngine(gui_mover(cli.opts, cli.matches_by_caseid)),
               batch |-> Idle]
    /\ rs = <<>>
    /\ mt = <<>>
    /\ sc = <<>>
    /\ rp = <<>>
    /\ gui = <<>>

\* results = mover.move_all(all_matches) in both front ends (cli.py 593,
\* gui.py 473)
FrontBegin ==
    /\ batch.pc = "idle"
    /\ batch' = BeginBatch(cfg, all_matches(cli.matches_by_caseid))
    /\ twin' = [twin EXCEPT !.batch = BeginBatch(twin.cfg, all_matches(cli.matches_by_caseid))]
    /\ UNCHANGED <<cfg, fs, fs0, eng, outcomes, calls, rs, mt, sc, cli, rp, gui>>

NextFront == FrontBegin \/ SymIter

SpecFront == InitFront /\ [][NextFront]_vars

\* C38 (checked under SpecFront): the engine of the CLI and the engine of
\* the GUI are both constructed with duplicate_case_ids equal to the set of
\* identifiers with more than one match, and for the same identifiers,
\* folders and options they give each match the same status and the same
\* destination.
C38_FrontEndsAgree ==
    /\ cfg.duplicate_case_ids = duplicate_case_ids(cli.matches_by_caseid)
    /\ twin.cfg.duplicate_case_ids = duplicate_case_ids(cli.matches_by_caseid)
    /\ \A i \in 1..ShorterLen(batch.results, twin.batch.results) :
          /\ batch.results[i].status = twin.batch.results[i].status
          /\ batch.results[i].dest_path = twin.batch.results[i].dest_path

\* C39 (checked under SpecQuar): the quarantine branch does not read
\* on_dest_exists.  With duplicates_action=quarantine and
\* on_dest_exists=skip, a duplicate match whose name is present or claimed
\* in its _DUPLICATES/<identifier>/ directory is never reported
\* SKIPPED_EXISTS: it is quarantined under the first free suffixed name with
\* status QUARANTINED_RENAMED (DRY_RUN_QUARANTINE_RENAMED in a dry run),
\* unless the move primitive ends in ERROR.
C39_QuarantineIgnoresSkip ==
    [][Len(outcomes') = Len(outcomes) + 1 =>
        LET res == outcomes'[Len(outcomes')]
            m == MatchOf(res)
        IN  (/\ cfg.on_dest_exists = "skip"
             /\ QuarantineBranch(fs, m)
             /\ TakenInQuarantine(fs, eng, m.case_id, m.folder_name)) =>
               /\ res.status # "SKIPPED_EXISTS"
               /\ res.status \in {"QUARANTINED_RENAMED", "DRY_RUN_QUARANTINE_RENAMED",
                                  "ERROR"}
               /\ res.status = "QUARANTINED_RENAMED" =>
                     /\ ~cfg.dry_run
                     /\ FirstFreeQuarantined(fs, eng, m.case_id, m.folder_name,
                                             res.dest_path)
                     /\ res.dest_path \in fs'.dest
               /\ res.status = "DRY_RUN_QUARANTINE_RENAMED" =>
                     /\ cfg.dry_run
                     /\ FirstFreeQuarantined(fs, eng, m.case_id, m.folder_name,
                                             res.dest_path)
               /\ res.status = "ERROR" => fs'.src = fs.src]_vars

\* under on_dest_exists=skip, _DUPLICATES/X held an A from an earlier run; a
\* live run quarantined two folders A of identifier X as A_1 and A_2
C39_Witness ==
    /\ cfg.on_dest_exists = "skip"
    /\ ~cfg.dry_run
    /\ fs0.dest = QuarantinedA
    /\ Len(outcomes) = 2
    /\ outcomes[1].status = "QUARANTINED_RENAMED"
    /\ outcomes[1].dest_path = <<DUPLICATES_FOLDER, CidX, Suffixed(NameA, 1)>>
    /\ outcomes[2].status = "QUARANTINED_RENAMED"
    /\ outcomes[2].dest_path = <<DUPLICATES_FOLDER, CidX, Suffixed(NameA, 2)>>

(***************************************************************************)
(* Termination of move_all (mover.py 659-683).  The loop is sequential     *)
(* code of one thread that waits for nothing, so an iteration that can be  *)
(* taken is taken: weak fairness on MoveAllIter.  SpecTerminate runs the   *)
(* engine over the destination of SpecExhaust.                             *)
(***************************************************************************)
SpecTerminate == InitExhaust /\ [][Next]_vars /\ WF_vars(MoveAllIter)

\* one visit: the match at position i is handled, one outcome is recorded
\* for it, and the loop is at position i + 1
OneVisit ==
    /\ batch'.matches = batch.matches
    /\ batch'.i = batch.i + 1
    /\ Len(batch'.results) = Len(batch.results) + 1
    /\ batch'.results[Len(batch'.results)].status \in MoveStatus
    /\ batch'.pc \in {"loop", "returned"}

\* C40 (checked under SpecTerminate): move_all terminates on every finite
\* match list: each step of its loop visits the next match of the list once
\* and ends in one status, and a batch that has begun eventually returns.
C40_MoveAllReturns ==
    /\ [][(batch.pc = "loop" /\ batch' # batch) => OneVisit]_vars
    /\ (batch.pc = "loop") ~> (batch.pc = "returned")

====
